---------------------------- MODULE Spec2Model ----------------------------
(***************************************************************************)
(* Montpellier bike prediction: the forecast-window selector, the feature  *)
(* builders of the two predictors (Prophet, XGBoost) and the daily         *)
(* pipeline that sequences them.                                           *)
(*                                                                         *)
(* An instant is an integer: the number of whole minutes since             *)
(* 1970-01-01T00:00:00 UTC.  A DataFrame is a sequence of records, a table *)
(* of the store is a sequence of records in physical order.  Numeric cells *)
(* are integers; a missing numeric value (pandas NaN / SQL NULL) is NaN,   *)
(* a missing text value is NoText.                                         *)
(***************************************************************************)
EXTENDS Integers, Sequences, FiniteSets, TLC

VARIABLES
    now,                              \* the wall clock, read by datetime.now(timezone.utc)
    ticks,                            \* how many times the clock advanced
    feed,                             \* the Open-Meteo response as fetch_hourly_forecast_utc frames it
    bike_hourly,                      \* table bike_hourly
    weather_hourly,                   \* table weather_hourly
    holidays,                         \* table holidays
    weather_forecast_hourly,          \* table weather_forecast_hourly
    bike_predictions_hourly_prophet,  \* table bike_predictions_hourly_prophet
    bike_predictions_hourly_xgboost,  \* table bike_predictions_hourly_xgboost
    pc,                               \* position of the running script
    df_tomorrow,                      \* result of keep_tomorrow_utc_midnight_to_midnight
    forecast_day,                     \* the "tomorrow" the forecast update selected (-1: none yet)
    df_weather,                       \* predictor local: weather history snapshot
    df_holidays,                      \* predictor local: holiday snapshot
    df_forecast_weather,              \* predictor local: tomorrow's forecast snapshot
    idx,                              \* predictor local: position in SELECTED_COUNTERS
    all_preds,                        \* predictor local: list of per-counter prediction frames
    df_joined,                        \* last joined frame (before dropna), per variant
    df_train,                         \* last training frame built, per variant
    df_future,                        \* last future frame built, per variant
    fits,                             \* calls of a model's fit: [variant, counter_id, rows]
    predicts,                         \* calls of a model's predict: [variant, counter_id, nulls]
    log,                              \* warnings printed: [variant, counter_id, reason]
    writes,                           \* upsert_df calls made, in order: [table, records]
    error,                            \* the exception that ended the run, "none" if none
    csv_bike,                         \* data/processed/bike_selected_hourly_processed.csv
    csv_weather,                      \* data/processed/weather_hourly_processed.csv
    api_ts,                           \* upstream answer to each timeseries request
    api_counters,                     \* upstream answer to each /ecocounter page request
    api_weather,                      \* upstream answer to the weather archive request
    etl_i,                            \* ETL local: position in the (counter, chunk) loop
    all_dfs,                          \* ETL local: frames collected so far
    df_etl,                           \* the frame an ETL fetch returned
    runs,                             \* scripts started since the store was set up
    counters,                         \* table counters
    csv_holidays,                     \* data/processed/holidays_processed.csv
    args,                             \* the arguments of the function or script under way
    locals,                           \* the local variables of the function under way
    requests                          \* GET requests sent to /ecocounter: their params, in order

vars == <<now, ticks, feed, bike_hourly, weather_hourly, holidays,
          weather_forecast_hourly, bike_predictions_hourly_prophet,
          bike_predictions_hourly_xgboost, pc, df_tomorrow, forecast_day,
          df_weather, df_holidays, df_forecast_weather, idx, all_preds,
          df_joined, df_train, df_future, fits, predicts, log, writes, error,
          csv_bike, csv_weather, api_ts, api_counters, api_weather, etl_i, all_dfs,
          df_etl, runs, counters, csv_holidays, args, locals, requests>>

tables == <<bike_hourly, weather_hourly, holidays, weather_forecast_hourly,
            bike_predictions_hourly_prophet, bike_predictions_hourly_xgboost>>

files == <<csv_bike, csv_weather>>

upstream == <<api_ts, api_counters, api_weather>>

etl_locals == <<etl_i, all_dfs, df_etl>>

\* the holidays CSV, and the state of a function that is run on its own
aside == <<csv_holidays, args, locals, requests>>

\* what the daily scripts neither read nor write
outside == <<files, upstream, etl_locals, runs, counters, aside>>

predictor_locals == <<df_weather, df_holidays, df_forecast_weather, idx, all_preds,
                      df_joined, df_train, df_future, fits, predicts, log, writes>>

-----------------------------------------------------------------------------
(* Bounds of the model *)

\* The clock advances at most this many hours during a run.
MaxTicks == 1

\* Longest arbitrary (hand-enumerated) raw feed of the window specification.
MaxFeedRows == 2

-----------------------------------------------------------------------------
(* Calendar arithmetic on instants (datetime / pandas .dt accessors) *)

\* periods=24 of the hourly index of tomorrow
HoursOfWindow == 24

\* timedelta(hours=n), in minutes
Hours(n) == n * 60

\* Series.dt.date of a UTC timestamp: the day number since 1970-01-01
date(ts) == ts \div Hours(24)

\* Series.dt.hour of a UTC timestamp
hour(ts) == (ts \div Hours(1)) % 24

\* Series.dt.minute of a UTC timestamp
minute(ts) == ts % Hours(1)

\* Series.dt.weekday: Monday = 0 .. Sunday = 6 (1970-01-01 was a Thursday)
weekday(ts) == (date(ts) + 3) % 7

\* (now_utc + timedelta(days=1)).date()
tomorrow_of(now_utc) == date(now_utc + Hours(24))

\* datetime(year, month, day, 0, 0, tzinfo=utc) of a day number
midnight(day) == day * Hours(24)

-----------------------------------------------------------------------------
(* pandas operations on frames *)

\* the missing value of a numeric column (float NaN, SQL NULL)
NaN == -1

\* the missing value of a text column
NoText == "NaN"

WeatherCols == {"temperature_2m", "relative_humidity_2m", "precipitation", "wind_speed_10m"}

NullWeather == [c \in WeatherCols |-> NaN]

\* a merge that keeps only the matched rows (how="inner")
RECURSIVE merge_inner(_, _, _, _)
merge_inner(left, right, on, nulls) ==
    IF left = << >> THEN << >>
    ELSE IF Len(left) = 1
    THEN LET l == left[1]
             m == SelectSeq(right, LAMBDA r : r[on] = l[on])
         IN  [i \in 1..Len(m) |-> l @@ m[i]]
    ELSE LET half == Len(left) \div 2
         IN  merge_inner(SubSeq(left, 1, half), right, on, nulls)
             \o merge_inner(SubSeq(left, half + 1, Len(left)), right, on, nulls)

\* left.merge(right, on=on, how="left"): every left row in order, once per
\* matching right row (in right order), or once with nulls when none matches
\* (the rows of the first half of left, then the rows of its second half)
RECURSIVE merge_left(_, _, _, _)
merge_left(left, right, on, nulls) ==
    IF left = << >> THEN << >>
    ELSE IF Len(left) = 1
    THEN LET l == left[1]
             m == SelectSeq(right, LAMBDA r : r[on] = l[on])
         IN  IF m = << >> THEN << l @@ nulls >>
             ELSE [i \in 1..Len(m) |-> l @@ m[i]]
    ELSE LET half == Len(left) \div 2
         IN  merge_left(SubSeq(left, 1, half), right, on, nulls)
             \o merge_left(SubSeq(left, half + 1, Len(left)), right, on, nulls)

\* DataFrame.drop_duplicates(subset=subset): the first row of every key, in order
drop_duplicates(df, subset) ==
    LET same(a, b) == \A k \in subset : a[k] = b[k]
        first(i) == \A j \in 1..(i - 1) : ~same(df[j], df[i])
        \* the first rows among the rows lo..hi, in order
        RECURSIVE keep(_, _)
        keep(lo, hi) ==
            IF lo > hi THEN << >>
            ELSE IF lo = hi THEN (IF first(lo) THEN << df[lo] >> ELSE << >>)
            ELSE keep(lo, (lo + hi) \div 2) \o keep(((lo + hi) \div 2) + 1, hi)
    IN  keep(1, Len(df))

\* DataFrame.dropna(subset=subset): the rows with no missing value in subset
dropna(df, subset) == SelectSeq(df, LAMBDA r : \A k \in subset : r[k] # NaN)

\* DataFrame.sort_values("timestamp_utc") / .order("timestamp_utc")
sort_by_timestamp(df) ==
    IF \A i \in 1..(Len(df) - 1) : df[i].timestamp_utc <= df[i + 1].timestamp_utc
    THEN df
    ELSE SortSeq(df, LAMBDA a, b : a.timestamp_utc < b.timestamp_utc)

\* the rows of a frame, as a set
Rows(df) == {df[i] : i \in DOMAIN df}

-----------------------------------------------------------------------------
(* update_weather_forecast.py *)

\* pd.date_range(start=tomorrow 00:00 UTC, periods=24, freq="H")
date_range(start, periods) == [i \in 1..periods |-> start + Hours(i - 1)]

\* keep_tomorrow_utc_midnight_to_midnight(df), with the clock it reads
keep_tomorrow_utc_midnight_to_midnight(df, now_utc) ==
    LET tomorrow == tomorrow_of(now_utc)
        hours == date_range(midnight(tomorrow), HoursOfWindow)
        expected == [i \in DOMAIN hours |-> [time_utc |-> hours[i]]]
    IN  merge_left(expected, df, "time_utc", NullWeather)

-----------------------------------------------------------------------------
(* Inputs of the window specification *)

FeedRow(t, v) == [time_utc |-> t] @@ [c \in WeatherCols |-> v]

\* an hourly feed of n rows from instant start, without the hours in missing
HourlyFeed(start, n, missing) ==
    SelectSeq([i \in 1..n |-> FeedRow(start + Hours(i - 1), 10 + i)],
              LAMBDA r : r.time_utc \notin missing)

\* sequences over S of length at most n
SeqsUpTo(S, n) == UNION {[1..k -> S] : k \in 0..n}

\* the first day of the window specification's clock
WindowDay == 1

WindowNows == {midnight(WindowDay), midnight(WindowDay) + Hours(23)}

WindowFeedTimes ==
    {midnight(WindowDay + 1) - Hours(1), midnight(WindowDay + 1),
     midnight(WindowDay + 1) + Hours(23), midnight(WindowDay + 2)}

WindowFeeds ==
    SeqsUpTo({FeedRow(t, v) : t \in WindowFeedTimes, v \in {NaN, 10}}, MaxFeedRows)
    \cup {HourlyFeed(midnight(d), n, m) :
            d \in {WindowDay, WindowDay + 1}, n \in {24, 72},
            m \in {{}, {midnight(WindowDay + 1) + Hours(5)}}}

\* no holidays CSV, and no function run on its own
AtRest ==
    /\ csv_holidays = << >>
    /\ args = << >> /\ locals = << >> /\ requests = << >>

\* no CSV file, no upstream request, no ETL under way
Quiet ==
    /\ csv_bike = << >> /\ csv_weather = << >>
    /\ api_ts = << >> /\ api_counters = << >> /\ api_weather = << >>
    /\ etl_i = 0 /\ all_dfs = << >> /\ df_etl = << >>
    /\ runs = 0
    /\ counters = << >>
    /\ AtRest

\* empty tables, and no predictor has run
Blank ==
    /\ bike_hourly = << >> /\ weather_hourly = << >> /\ holidays = << >>
    /\ weather_forecast_hourly = << >>
    /\ bike_predictions_hourly_prophet = << >>
    /\ bike_predictions_hourly_xgboost = << >>
    /\ df_tomorrow = << >> /\ forecast_day = -1
    /\ df_weather = << >> /\ df_holidays = << >> /\ df_forecast_weather = << >>
    /\ idx = 0 /\ all_preds = << >>
    /\ df_joined = [prophet |-> << >>, xgboost |-> << >>]
    /\ df_train = [prophet |-> << >>, xgboost |-> << >>]
    /\ df_future = [prophet |-> << >>, xgboost |-> << >>]
    /\ fits = {} /\ predicts = {} /\ log = {} /\ writes = << >> /\ error = "none"

Idle == Quiet /\ Blank

InitWindow ==
    /\ now \in WindowNows
    /\ ticks = 0
    /\ feed \in WindowFeeds
    /\ pc = "select"
    /\ Idle

\* the clock advances by one hour; it is read (datetime.now) by the window
\* selector and by each predictor's forecast loader, so its advance is taken
\* just before one of these steps
Tick ==
    /\ ticks < MaxTicks
    /\ pc \in {"select", "forecast", "prophet", "xgboost"}
    /\ now' = now + Hours(1)
    /\ ticks' = ticks + 1
    /\ UNCHANGED <<feed, tables, pc, df_tomorrow, forecast_day, predictor_locals, error,
                   outside>>

\* one call of keep_tomorrow_utc_midnight_to_midnight on the raw feed
KeepTomorrow ==
    /\ pc = "select"
    /\ df_tomorrow' = keep_tomorrow_utc_midnight_to_midnight(feed, now)
    /\ forecast_day' = tomorrow_of(now)
    /\ pc' = "selected"
    /\ UNCHANGED <<now, ticks, feed, tables, predictor_locals, error, outside>>

NextWindow == Tick \/ KeepTomorrow

SpecWindow == InitWindow /\ [][NextWindow]_vars

-----------------------------------------------------------------------------
(* train_and_predict_prophet.py / train_and_predict_xgboost.py: features *)

\* df["name"].notna().astype(int), on the text column name
notna_int(v) == IF v # NoText THEN 1 ELSE 0

\* a conversion to the wall clock one hour east of UTC
tz_convert_local(ts) == midnight(date(ts)) + Hours(hour(ts)) + minute(ts) + Hours(1)

\* Series.dt.tz_convert(None) of a UTC timestamp: the naive datetime with the
\* same wall clock, counted in minutes like an instant
tz_convert_none(ts) == midnight(date(ts)) + Hours(hour(ts)) + minute(ts)

\* df_holidays[["date", "name"]]
date_name(df_holidays_) ==
    [i \in DOMAIN df_holidays_ |-> [date |-> df_holidays_[i].date, name |-> df_holidays_[i].name]]

\* df["date"] = df["timestamp_utc"].dt.date
with_date(df) == [i \in DOMAIN df |-> df[i] @@ [date |-> date(df[i].timestamp_utc)]]

ProphetRegressors ==
    {"temperature_2m", "relative_humidity_2m", "precipitation", "wind_speed_10m",
     "is_holiday", "dow", "hour"}

FEATURE_COLS ==
    {"hour", "dow", "is_holiday", "temperature_2m", "relative_humidity_2m",
     "precipitation", "wind_speed_10m"}

\* build_training_dataframe, its start: the two left joins and the derived
\* columns, before the column selection and dropna
build_training_dataframe_joined(df_bike, df_weather_, df_holidays_) ==
    LET df == merge_left(df_bike, df_weather_, "timestamp_utc", NullWeather)
        dh == merge_left(with_date(df), date_name(df_holidays_), "date", [name |-> NoText])
    IN  [i \in DOMAIN dh |->
            dh[i] @@ [is_holiday |-> notna_int(dh[i].name),
                      dow |-> weekday(dh[i].timestamp_utc),
                      hour |-> hour(dh[i].timestamp_utc),
                      ds |-> tz_convert_none(dh[i].timestamp_utc),
                      y |-> dh[i].intensity]]

\* build_training_dataframe, its end: df[cols].dropna()
build_training_dataframe_select(df) ==
    LET cols == {"ds", "y"} \cup ProphetRegressors
    IN  dropna([i \in DOMAIN df |-> [c \in cols |-> df[i][c]]], cols)

\* build_future_dataframe (Prophet)
build_future_dataframe(df_forecast_weather_, df_holidays_) ==
    LET df == [i \in DOMAIN df_forecast_weather_ |->
                  df_forecast_weather_[i]
                  @@ [ds |-> tz_convert_none(df_forecast_weather_[i].timestamp_utc)]]
        dh == merge_left(with_date(df), date_name(df_holidays_), "date", [name |-> NoText])
        cols == {"ds"} \cup ProphetRegressors
    IN  [i \in DOMAIN dh |->
            LET r == dh[i] @@ [is_holiday |-> notna_int(dh[i].name),
                               dow |-> weekday(dh[i].timestamp_utc),
                               hour |-> hour(dh[i].timestamp_utc)]
            IN  [c \in cols |-> r[c]]]

\* build_training_dataset (XGBoost), its start: the frame before dropna
build_training_dataset_joined(df_bike, df_weather_, df_holidays_) ==
    LET df == merge_left(df_bike, df_weather_, "timestamp_utc", NullWeather)
        dh == merge_left(with_date(df), date_name(df_holidays_), "date", [name |-> NoText])
    IN  [i \in DOMAIN dh |->
            dh[i] @@ [is_holiday |-> notna_int(dh[i].name),
                      hour |-> hour(dh[i].timestamp_utc),
                      dow |-> weekday(dh[i].timestamp_utc)]]

\* build_training_dataset, its end: df.dropna(subset=["intensity"] + FEATURE_COLS)
build_training_dataset_dropna(df) == dropna(df, {"intensity"} \cup FEATURE_COLS)

\* build_future_features with the day of week taken as isoweekday (Monday = 1)
build_future_features_isoweekday(df_forecast_weather_, df_holidays_) ==
    LET dh == merge_left(with_date(df_forecast_weather_), date_name(df_holidays_),
                         "date", [name |-> NoText])
    IN  sort_by_timestamp(
            [i \in DOMAIN dh |->
                dh[i] @@ [is_holiday |-> notna_int(dh[i].name),
                          hour |-> hour(dh[i].timestamp_utc),
                          dow |-> weekday(dh[i].timestamp_utc) + 1]])

\* build_future_features (XGBoost)
build_future_features(df_forecast_weather_, df_holidays_) ==
    LET dh == merge_left(with_date(df_forecast_weather_), date_name(df_holidays_),
                         "date", [name |-> NoText])
    IN  sort_by_timestamp(
            [i \in DOMAIN dh |->
                dh[i] @@ [is_holiday |-> notna_int(dh[i].name),
                          hour |-> hour(dh[i].timestamp_utc),
                          dow |-> weekday(dh[i].timestamp_utc)]])

-----------------------------------------------------------------------------
(* Inputs of the feature specification: small frames over a few instants   *)
(* around Sunday 1970-01-04 23:00 / Monday 1970-01-05 00:00.               *)

\* Longest reading series and forecast frame of the feature specification.
MaxFeatureRows == 2

FeatureDay == 4

FeatureInstants ==
    {midnight(FeatureDay) - Hours(1), midnight(FeatureDay), midnight(FeatureDay) + Hours(1)}

\* strictly ascending sequences over a set of instants, of length at most n
RECURSIVE Ascending(_, _)
Ascending(S, n) ==
    IF n = 0 \/ S = {} THEN {<< >>}
    ELSE {<< >>} \cup
         UNION {{<<t>> \o s : s \in Ascending({u \in S : u > t}, n - 1)} : t \in S}

WeatherRow(t, v, h) ==
    [timestamp_utc |-> t, temperature_2m |-> v, relative_humidity_2m |-> h,
     precipitation |-> v, wind_speed_10m |-> v]

BikeRow(c, t, n) == [counter_id |-> c, timestamp_utc |-> t, intensity |-> n]

HolidayRow(d, name) == [date |-> d, name |-> name, year |-> 1970 + (d \div 365)]

\* reading series of one counter: unique per timestamp, ordered by timestamp
FeatureBikeFrames ==
    {[i \in DOMAIN s |-> BikeRow(1, s[i], i)] : s \in Ascending(FeatureInstants, MaxFeatureRows)}

\* weather series: unique per timestamp, ordered; a field may be missing
FeatureWeatherFrames ==
    {[i \in DOMAIN s |-> WeatherRow(s[i], 10 + i, h)] :
        s \in Ascending({midnight(FeatureDay) - Hours(1), midnight(FeatureDay)}, 2),
        h \in {60, NaN}}

\* holiday tables: one row per date; the name column is nullable text
FeatureHolidayFrames ==
    {<< >>} \cup
    {<<HolidayRow(d, n)>> : d \in {FeatureDay - 1, FeatureDay}, n \in {"Paques", "Noel", NoText}}
    \cup {<<HolidayRow(FeatureDay - 1, "Paques"), HolidayRow(FeatureDay, "Noel")>>}

FeatureForecastFrames ==
    {[i \in DOMAIN s |-> WeatherRow(s[i], v, v)] :
        s \in Ascending(FeatureInstants, MaxFeatureRows), v \in {20, NaN}}

InitFeatures ==
    /\ now = midnight(FeatureDay - 1)
    /\ ticks = 0
    /\ feed = << >>
    /\ bike_hourly \in FeatureBikeFrames
    /\ weather_hourly = << >> /\ holidays = << >>
    /\ weather_forecast_hourly = << >>
    /\ bike_predictions_hourly_prophet = << >>
    /\ bike_predictions_hourly_xgboost = << >>
    /\ df_tomorrow = << >> /\ forecast_day = -1
    /\ df_weather \in FeatureWeatherFrames
    /\ df_holidays \in FeatureHolidayFrames
    /\ df_forecast_weather \in FeatureForecastFrames
    /\ idx = 0 /\ all_preds = << >>
    /\ df_joined = [prophet |-> << >>, xgboost |-> << >>]
    /\ df_train = [prophet |-> << >>, xgboost |-> << >>]
    /\ df_future = [prophet |-> << >>, xgboost |-> << >>]
    /\ fits = {} /\ predicts = {} /\ log = {} /\ writes = << >> /\ error = "none"
    /\ Quiet
    /\ pc = "train_prophet"

feature_frame == <<now, ticks, feed, tables, df_tomorrow, forecast_day, df_weather,
                   df_holidays, df_forecast_weather, idx, all_preds, fits, predicts,
                   log, writes, error, outside>>

\* one call of build_training_dataframe on the reading series
BuildProphetTraining ==
    /\ pc = "train_prophet"
    /\ LET df == build_training_dataframe_joined(bike_hourly, df_weather, df_holidays)
       IN  /\ df_joined' = [df_joined EXCEPT !.prophet = df]
           /\ df_train' = [df_train EXCEPT !.prophet = build_training_dataframe_select(df)]
    /\ pc' = "future_prophet"
    /\ UNCHANGED <<feature_frame, df_future>>

\* one call of build_future_dataframe on the forecast frame
BuildProphetFuture ==
    /\ pc = "future_prophet"
    /\ df_future' = [df_future EXCEPT !.prophet =
                        build_future_dataframe(df_forecast_weather, df_holidays)]
    /\ pc' = "train_xgboost"
    /\ UNCHANGED <<feature_frame, df_joined, df_train>>

\* one call of build_training_dataset on the reading series
BuildXgbTraining ==
    /\ pc = "train_xgboost"
    /\ LET df == build_training_dataset_joined(bike_hourly, df_weather, df_holidays)
       IN  /\ df_joined' = [df_joined EXCEPT !.xgboost = df]
           /\ df_train' = [df_train EXCEPT !.xgboost = build_training_dataset_dropna(df)]
    /\ pc' = "future_xgboost"
    /\ UNCHANGED <<feature_frame, df_future>>

\* one call of build_future_features on the forecast frame
BuildXgbFuture ==
    /\ pc = "future_xgboost"
    /\ df_future' = [df_future EXCEPT !.xgboost =
                        build_future_features(df_forecast_weather, df_holidays)]
    /\ pc' = "built"
    /\ UNCHANGED <<feature_frame, df_joined, df_train>>

NextFeatures ==
    BuildProphetTraining \/ BuildProphetFuture \/ BuildXgbTraining \/ BuildXgbFuture

SpecFeatures == InitFeatures /\ [][NextFeatures]_vars

-----------------------------------------------------------------------------
(* C1: keep_tomorrow_utc_midnight_to_midnight returns exactly 24 rows, one  *)
(* for each hour 00:00..23:00 of (current UTC date + 1), for every raw     *)
(* feed; an hour absent from the feed is a row with four null fields.      *)
C1_AlwaysTwentyFourRows ==
    pc = "selected" =>
        /\ Len(df_tomorrow) = 24
        /\ \A h \in 0..23 :
              LET r == df_tomorrow[h + 1]
                  t == midnight(forecast_day) + (h * 60)
              IN  /\ r.time_utc = t
                  /\ (\A i \in DOMAIN feed : feed[i].time_utc # t)
                        => \A c \in WeatherCols : r[c] = NaN

-----------------------------------------------------------------------------
(* db_supabase.py and the store behind it *)

\* Series.dt.strftime("%Y-%m-%dT%H:%M:%S") of a timestamp, aware or naive:
\* the text <<date, hour, minute>> of its own wall clock, without offset suffix
strftime(ts) == <<date(ts), hour(ts), minute(ts)>>

\* the store's cast of an offset-less timestamp text to timestamptz (read as UTC)
timestamptz(text) == midnight(text[1]) + Hours(text[2]) + text[3]

\* an insert that never replaces a stored row
insert_rows(table, records, key) ==
    table \o [i \in DOMAIN records |->
                 IF "timestamp_utc" \in DOMAIN records[i]
                 THEN [records[i] EXCEPT !.timestamp_utc = timestamptz(@)]
                 ELSE records[i]]

\* an insert that leaves a stored row as it is when its key comes again
\* (ON CONFLICT DO NOTHING)
insert_ignore_duplicates(table, records, key) ==
    LET stored == [i \in DOMAIN records |->
                      IF "timestamp_utc" \in DOMAIN records[i]
                      THEN [records[i] EXCEPT !.timestamp_utc = timestamptz(@)]
                      ELSE records[i]]
    IN  table \o SelectSeq(stored, LAMBDA r : \A i \in DOMAIN table :
                                                \E k \in key : r[k] # table[i][k])

\* client.table(t).upsert(records): a record replaces the row with its key,
\* or is added; timestamp texts become instants
upsert(table, records, key) ==
    LET stored == [i \in DOMAIN records |->
                      IF "timestamp_utc" \in DOMAIN records[i]
                      THEN [records[i] EXCEPT !.timestamp_utc = timestamptz(@)]
                      ELSE records[i]]
        same(a, b) == \A k \in key : a[k] = b[k]
        replaced == [i \in DOMAIN table |->
                        IF \E j \in DOMAIN stored : same(stored[j], table[i])
                        THEN stored[CHOOSE j \in DOMAIN stored : same(stored[j], table[i])]
                        ELSE table[i]]
        added == SelectSeq(stored, LAMBDA r : \A i \in DOMAIN table : ~same(r, table[i]))
    IN  replaced \o added

\* a record of the batch carries a missing value (NaN in the JSON body)
has_nan(records) ==
    \E i \in DOMAIN records : \E c \in WeatherCols : records[i][c] = NaN

\* prepare_for_supabase without its drop_duplicates
prepare_keep_duplicates(df) ==
    [i \in DOMAIN df |->
        [timestamp_utc |-> strftime(df[i].time_utc),
         temperature_2m |-> df[i].temperature_2m,
         relative_humidity_2m |-> df[i].relative_humidity_2m,
         precipitation |-> df[i].precipitation,
         wind_speed_10m |-> df[i].wind_speed_10m]]

\* prepare_for_supabase
prepare_for_supabase(df) ==
    drop_duplicates(
        [i \in DOMAIN df |->
            [timestamp_utc |-> strftime(df[i].time_utc),
             temperature_2m |-> df[i].temperature_2m,
             relative_humidity_2m |-> df[i].relative_humidity_2m,
             precipitation |-> df[i].precipitation,
             wind_speed_10m |-> df[i].wind_speed_10m]],
        {"timestamp_utc"})

-----------------------------------------------------------------------------
(* Loaders of the predictors *)

\* config.SELECTED_COUNTERS has NumCounters entries
NumCounters == 2

SELECTED_COUNTERS == [i \in 1..NumCounters |-> i]

\* load_bike_history: .eq("counter_id", counter_id).order("timestamp_utc")
load_bike_history(counter_id) ==
    sort_by_timestamp(SelectSeq(bike_hourly, LAMBDA r : r.counter_id = counter_id))

\* load_weather_history: .order("timestamp_utc")
load_weather_history == sort_by_timestamp(weather_hourly)

\* load_holidays
load_holidays == holidays

\* load_weather_forecast_for_tomorrow: the rows whose UTC date is tomorrow
\* a loader that takes the rows in the order the store keeps them
load_weather_forecast_for_tomorrow_unordered(now_utc) ==
    SelectSeq(weather_forecast_hourly,
              LAMBDA r : date(r.timestamp_utc) = tomorrow_of(now_utc))

load_weather_forecast_for_tomorrow(now_utc) ==
    SelectSeq(sort_by_timestamp(weather_forecast_hourly),
              LAMBDA r : date(r.timestamp_utc) = tomorrow_of(now_utc))

\* shared loaders that accept an empty weather_hourly and an empty holidays
shared_load_error_forecast_only(now_utc) ==
    IF weather_forecast_hourly = << >> THEN "No data in weather_forecast_hourly"
    ELSE IF load_weather_forecast_for_tomorrow(now_utc) = << >>
         THEN "No forecast rows for tomorrow in weather_forecast_hourly"
    ELSE "none"

\* the exception the three shared loaders end with, "none" when all succeed
shared_load_error(now_utc) ==
    IF weather_hourly = << >> THEN "No data in weather_hourly"
    ELSE IF holidays = << >> THEN "No data in holidays"
    ELSE IF weather_forecast_hourly = << >> THEN "No data in weather_forecast_hourly"
    ELSE IF load_weather_forecast_for_tomorrow(now_utc) = << >>
         THEN "No forecast rows for tomorrow in weather_forecast_hourly"
    ELSE "none"

-----------------------------------------------------------------------------
(* The models.  A fitted model is kept as a digest of its training frame,  *)
(* its answer on a feature row as the pair of the digest and the row's     *)
(* regressors: each depends on nothing else.                               *)

\* the minimum size of an XGBoost training set
MinTrainRows == 100

\* a threshold that also refuses a frame of exactly MinTrainRows rows
too_few_rows_inclusive(df_train_) == Len(df_train_) <= MinTrainRows

\* if len(df_train) < 100
too_few_rows(df_train_) == Len(df_train_) < MinTrainRows

\* the rows of a frame with a missing regressor
null_rows(df) == SelectSeq(df, LAMBDA r : \E c \in FEATURE_COLS : r[c] = NaN)

\* Prophet.fit refuses a history of fewer than two rows (ValueError)
prophet_fit_raises(df_train_) == Len(df_train_) < 2

\* Prophet.predict refuses a missing regressor value (ValueError)
prophet_predict_raises(df_future_) == null_rows(df_future_) # << >>

\* train_prophet_with_regressors / train_xgb_regressor: the fitted model
fitted(df_train_) == <<Len(df_train_), df_train_[1].hour, df_train_[Len(df_train_)].hour>>

\* the model's answer on one feature row
yhat_of(model, r) == <<model, [c \in FEATURE_COLS |-> r[c]]>>

\* model.predict(df_future) of Prophet: the frame is sorted by ds and its
\* index reset, then the forecast has one row per row of it
prophet_predict(model, df_future_) ==
    LET df == IF \A i \in 1..(Len(df_future_) - 1) : df_future_[i].ds <= df_future_[i + 1].ds
              THEN df_future_
              ELSE SortSeq(df_future_, LAMBDA a, b : a.ds < b.ds)
    IN  [i \in DOMAIN df |-> yhat_of(model, df[i])]

\* Prophet: df_pred of one counter, df_future["ds"] and forecast["yhat"]
\* put side by side on their index
prophet_pred(counter_id, model, df_future_) ==
    [i \in DOMAIN df_future_ |->
        [counter_id |-> counter_id, timestamp_utc |-> df_future_[i].ds,
         yhat |-> prophet_predict(model, df_future_)[i]]]

\* XGBoost: df_pred of one counter
xgb_pred(counter_id, model, df_future_) ==
    [i \in DOMAIN df_future_ |->
        [counter_id |-> counter_id, timestamp_utc |-> df_future_[i].timestamp_utc,
         yhat |-> yhat_of(model, df_future_[i])]]

\* a concatenation that keeps the last frame only
concat_last(frames) == IF frames = << >> THEN << >> ELSE frames[Len(frames)]

\* pd.concat(all_preds, ignore_index=True)
RECURSIVE concat(_)
concat(frames) == IF frames = << >> THEN << >> ELSE Head(frames) \o concat(Tail(frames))

\* df_all_preds["timestamp_utc"].dt.strftime("%Y-%m-%dT%H:%M:%S")
with_strftime(df) == [i \in DOMAIN df |-> [df[i] EXCEPT !.timestamp_utc = strftime(@)]]

-----------------------------------------------------------------------------
(* The daily pipeline: pipeline.py update_forecast_and_predictions *)

\* the day the pipeline is started on (1970-01-06)
PipelineDay == 5

\* the reading series of counter c: n hourly readings from 1970-01-01 00:00
History(c, n) == [i \in 1..n |-> BikeRow(c, Hours(i - 1), i % 7)]

\* the table bike_hourly: the series of the counters 1..n, one after the other
RECURSIVE Readings(_, _)
Readings(sizes, n) ==
    IF n = 0 THEN << >> ELSE Readings(sizes, n - 1) \o History(n, sizes[n])

HistorySizes == {0, 1, MinTrainRows, MinTrainRows + 1}

\* weather history over the hours 0..MinTrainRows from 1970-01-01 00:00,
\* without the instants in missing
WeatherHistory(missing) ==
    SelectSeq([i \in 1..(MinTrainRows + 1) |-> WeatherRow(Hours(i - 1), 10 + (i % 5), 60)],
              LAMBDA r : r.timestamp_utc \notin missing)

PipelineWeather == {<< >>, WeatherHistory({}), WeatherHistory({0})}

PipelineHolidays ==
    {<< >>, <<HolidayRow(0, "Jour de l'an")>>, <<HolidayRow(PipelineDay + 1, "Epiphanie")>>}

PipelineFeeds ==
    {<< >>,
     HourlyFeed(midnight(PipelineDay + 1), 24, {}),
     HourlyFeed(midnight(PipelineDay + 1), 24, {midnight(PipelineDay + 1) + Hours(5)}),
     HourlyFeed(midnight(PipelineDay), 72, {})}

Init ==
    /\ now = midnight(PipelineDay) + Hours(23)
    /\ ticks = 0
    /\ feed \in PipelineFeeds
    /\ \E sizes \in [1..NumCounters -> HistorySizes] :
          bike_hourly = Readings(sizes, NumCounters)
    /\ weather_hourly \in PipelineWeather
    /\ holidays \in PipelineHolidays
    /\ weather_forecast_hourly = << >>
    /\ bike_predictions_hourly_prophet = << >>
    /\ bike_predictions_hourly_xgboost = << >>
    /\ df_tomorrow = << >> /\ forecast_day = -1
    /\ df_weather = << >> /\ df_holidays = << >> /\ df_forecast_weather = << >>
    /\ idx = 0 /\ all_preds = << >>
    /\ df_joined = [prophet |-> << >>, xgboost |-> << >>]
    /\ df_train = [prophet |-> << >>, xgboost |-> << >>]
    /\ df_future = [prophet |-> << >>, xgboost |-> << >>]
    /\ fits = {} /\ predicts = {} /\ log = {} /\ writes = << >> /\ error = "none"
    /\ Quiet
    /\ pc = "forecast"

\* update_weather_forecast.main: fetch, select tomorrow, prepare, upsert.  The
\* store either takes a batch that carries missing values or rejects it.
UpdateWeatherForecast ==
    /\ pc = "forecast"
    /\ LET df_for_supabase ==
               prepare_for_supabase(keep_tomorrow_utc_midnight_to_midnight(feed, now))
       IN  /\ df_tomorrow' = keep_tomorrow_utc_midnight_to_midnight(feed, now)
           /\ forecast_day' = tomorrow_of(now)
           /\ \E accepted \in (IF has_nan(df_for_supabase) THEN BOOLEAN ELSE {TRUE}) :
                 IF accepted
                 THEN /\ weather_forecast_hourly' =
                            upsert(weather_forecast_hourly, df_for_supabase, {"timestamp_utc"})
                      /\ writes' = Append(writes, [table |-> "weather_forecast_hourly",
                                                   records |-> df_for_supabase])
                      /\ pc' = "prophet"
                      /\ error' = error
                 ELSE /\ pc' = "failed"
                      /\ error' = "upsert rejected"
                      /\ UNCHANGED <<weather_forecast_hourly, writes>>
    /\ UNCHANGED <<now, ticks, feed, bike_hourly, weather_hourly, holidays,
                   bike_predictions_hourly_prophet, bike_predictions_hourly_xgboost,
                   df_weather, df_holidays, df_forecast_weather, idx, all_preds,
                   df_joined, df_train, df_future, fits, predicts, log, outside>>

\* the head of predict_for_all_counters / predict_for_all_counters_xgb: the
\* three shared loads, then all_preds = []
LoadShared(stage, loop) ==
    /\ pc = stage
    /\ IF shared_load_error(now) # "none"
       THEN /\ pc' = "failed"
            /\ error' = shared_load_error(now)
            /\ UNCHANGED <<df_weather, df_holidays, df_forecast_weather, idx, all_preds>>
       ELSE /\ df_weather' = load_weather_history
            /\ df_holidays' = load_holidays
            /\ df_forecast_weather' = load_weather_forecast_for_tomorrow(now)
            /\ idx' = 1
            /\ all_preds' = << >>
            /\ pc' = loop
            /\ error' = error
    /\ UNCHANGED <<now, ticks, feed, tables, df_tomorrow, forecast_day,
                   df_joined, df_train, df_future, fits, predicts, log, writes, outside>>

ProphetLoadShared == LoadShared("prophet", "prophet_loop")

XgbLoadShared == LoadShared("xgboost", "xgboost_loop")

\* a loop body that loads tomorrow's forecast again for each counter
forecast_refetched == load_weather_forecast_for_tomorrow(now)

\* the forecast frame the loop body hands to the future builder: the local
\* that was loaded before the loop
forecast_in_loop == df_forecast_weather

loop_frame == <<now, ticks, feed, tables, df_tomorrow, forecast_day, df_weather,
                df_holidays, df_forecast_weather, writes, outside>>

\* a counter that ends the run with an exception instead of being skipped
raise_on_counter(warning) ==
    /\ pc' = "failed"
    /\ error' = warning.reason
    /\ UNCHANGED <<log, idx, all_preds>>

\* print(warning); continue
skip_counter(warning) ==
    /\ log' = log \cup {warning}
    /\ idx' = idx + 1
    /\ UNCHANGED <<pc, error, all_preds>>

\* one iteration of the loop of predict_for_all_counters
ProphetCounter ==
    /\ pc = "prophet_loop"
    /\ idx <= Len(SELECTED_COUNTERS)
    /\ LET counter_id == SELECTED_COUNTERS[idx]
           df_bike == load_bike_history(counter_id)
           joined == build_training_dataframe_joined(df_bike, df_weather, df_holidays)
           train == build_training_dataframe_select(joined)
           future == build_future_dataframe(forecast_in_loop, df_holidays)
           fit == [variant |-> "prophet", counter_id |-> counter_id, rows |-> Len(train)]
           predict == [variant |-> "prophet", counter_id |-> counter_id,
                       nulls |-> Len(null_rows(future))]
           warn(reason) == [variant |-> "prophet", counter_id |-> counter_id,
                            reason |-> reason]
       IN  IF df_bike = << >>
           THEN /\ skip_counter(warn("no bike data"))
                /\ UNCHANGED <<df_joined, df_train, df_future, fits, predicts>>
           ELSE /\ df_joined' = [df_joined EXCEPT !.prophet = joined]
                /\ df_train' = [df_train EXCEPT !.prophet = train]
                /\ IF train = << >>
                   THEN /\ skip_counter(warn("empty training set"))
                        /\ UNCHANGED <<df_future, fits, predicts>>
                   ELSE /\ fits' = fits \cup {fit}
                        /\ IF prophet_fit_raises(train)
                           THEN /\ pc' = "failed"
                                /\ error' = "fit raised"
                                /\ UNCHANGED <<idx, all_preds, df_future, predicts, log>>
                           ELSE /\ df_future' = [df_future EXCEPT !.prophet = future]
                                /\ predicts' = predicts \cup {predict}
                                /\ IF prophet_predict_raises(future)
                                   THEN /\ pc' = "failed"
                                        /\ error' = "predict raised"
                                        /\ UNCHANGED <<idx, all_preds, log>>
                                   ELSE /\ all_preds' = Append(all_preds,
                                               prophet_pred(counter_id, fitted(train), future))
                                        /\ idx' = idx + 1
                                        /\ UNCHANGED <<pc, error, log>>
    /\ UNCHANGED loop_frame

\* one iteration of the loop of predict_for_all_counters_xgb
XgbCounter ==
    /\ pc = "xgboost_loop"
    /\ idx <= Len(SELECTED_COUNTERS)
    /\ LET counter_id == SELECTED_COUNTERS[idx]
           df_bike == load_bike_history(counter_id)
           joined == build_training_dataset_joined(df_bike, df_weather, df_holidays)
           train == build_training_dataset_dropna(joined)
           future == build_future_features(forecast_in_loop, df_holidays)
           fit == [variant |-> "xgboost", counter_id |-> counter_id, rows |-> Len(train)]
           predict == [variant |-> "xgboost", counter_id |-> counter_id,
                       nulls |-> Len(null_rows(future))]
           warn(reason) == [variant |-> "xgboost", counter_id |-> counter_id,
                            reason |-> reason]
       IN  IF df_bike = << >>
           THEN /\ skip_counter(warn("no bike data"))
                /\ UNCHANGED <<df_joined, df_train, df_future, fits, predicts>>
           ELSE /\ df_joined' = [df_joined EXCEPT !.xgboost = joined]
                /\ df_train' = [df_train EXCEPT !.xgboost = train]
                /\ IF too_few_rows(train)
                   THEN /\ skip_counter(warn("not enough data"))
                        /\ UNCHANGED <<df_future, fits, predicts>>
                   ELSE /\ fits' = fits \cup {fit}
                        /\ df_future' = [df_future EXCEPT !.xgboost = future]
                        /\ predicts' = predicts \cup {predict}
                        /\ all_preds' = Append(all_preds,
                                               xgb_pred(counter_id, fitted(train), future))
                        /\ idx' = idx + 1
                        /\ UNCHANGED <<pc, error, log>>
    /\ UNCHANGED loop_frame

persist_frame == <<now, ticks, feed, bike_hourly, weather_hourly, holidays,
                   weather_forecast_hourly, df_tomorrow, forecast_day, df_weather,
                   df_holidays, df_forecast_weather, idx, all_preds, df_joined,
                   df_train, df_future, fits, predicts, log, error, outside>>

\* the tail of predict_for_all_counters: concat, strftime, one upsert_df
ProphetPersist ==
    /\ pc = "prophet_loop"
    /\ idx > Len(SELECTED_COUNTERS)
    /\ IF all_preds = << >>
       THEN UNCHANGED <<bike_predictions_hourly_prophet, writes>>
       ELSE LET df_all_preds == with_strftime(concat(all_preds))
            IN  /\ bike_predictions_hourly_prophet' =
                      upsert(bike_predictions_hourly_prophet, df_all_preds,
                             {"counter_id", "timestamp_utc"})
                /\ writes' = Append(writes, [table |-> "bike_predictions_hourly_prophet",
                                             records |-> df_all_preds])
    /\ pc' = "xgboost"
    /\ UNCHANGED <<persist_frame, bike_predictions_hourly_xgboost>>

\* the tail of predict_for_all_counters_xgb: concat, strftime, one upsert_df
XgbPersist ==
    /\ pc = "xgboost_loop"
    /\ idx > Len(SELECTED_COUNTERS)
    /\ IF all_preds = << >>
       THEN UNCHANGED <<bike_predictions_hourly_xgboost, writes>>
       ELSE LET df_all_preds == with_strftime(concat(all_preds))
            IN  /\ bike_predictions_hourly_xgboost' =
                      upsert(bike_predictions_hourly_xgboost, df_all_preds,
                             {"counter_id", "timestamp_utc"})
                /\ writes' = Append(writes, [table |-> "bike_predictions_hourly_xgboost",
                                             records |-> df_all_preds])
    /\ pc' = "done"
    /\ UNCHANGED <<persist_frame, bike_predictions_hourly_prophet>>

Next ==
    \/ Tick
    \/ UpdateWeatherForecast
    \/ ProphetLoadShared
    \/ ProphetCounter
    \/ ProphetPersist
    \/ XgbLoadShared
    \/ XgbCounter
    \/ XgbPersist

Spec == Init /\ [][Next]_vars

-----------------------------------------------------------------------------
(* cli/load_bike_hourly.py and cli/load_weather_hourly.py: the CSV loaders. *)
(* A timestamp text of a CSV file is [wall, offset]: the wall clock it     *)
(* shows, in minutes like an instant, and its UTC offset in minutes.       *)

\* pd.to_datetime(text, utc=True): the instant the text denotes
to_datetime_utc(text) == text.wall - text.offset

\* upsert_bike_hourly / upsert_weather_hourly: chunk_size
LoaderChunkSize == 2000

\* a loop over the whole chunks only: n_chunks = total // chunk_size
chunks_whole_only(df, chunk_size) ==
    [i \in 1..(Len(df) \div chunk_size) |->
        SubSeq(df, (i - 1) * chunk_size + 1, i * chunk_size)]

\* df.iloc[start:end] for every chunk, in order
chunks(df, chunk_size) ==
    [i \in 1..((Len(df) + chunk_size - 1) \div chunk_size) |->
        SubSeq(df, (i - 1) * chunk_size + 1,
               IF i * chunk_size < Len(df) THEN i * chunk_size ELSE Len(df))]

\* the calls of upsert_df a chunked upload makes
chunk_writes(table_name, df, chunk_size) ==
    [i \in DOMAIN chunks(df, chunk_size) |->
        [table |-> table_name, records |-> chunks(df, chunk_size)[i]]]

\* the table after the chunks of df were upserted one after the other
RECURSIVE upsert_chunks(_, _, _)
upsert_chunks(table, cs, key) ==
    IF cs = << >> THEN table ELSE upsert_chunks(upsert(table, Head(cs), key), Tail(cs), key)

\* load_bike_csv without its "Unicité" step
load_bike_csv_keep_all(csv) ==
    [i \in DOMAIN csv |->
        [counter_id |-> csv[i].ecocounter_id,
         timestamp_utc |-> strftime(to_datetime_utc(csv[i].timestamp_utc)),
         intensity |-> csv[i].intensity]]

\* load_bike_csv on a CSV with the columns timestamp_utc, intensity,
\* ecocounter_id that the ETL writes
load_bike_csv(csv) ==
    LET df == [i \in DOMAIN csv |->
                  [counter_id |-> csv[i].ecocounter_id,
                   timestamp_utc |-> to_datetime_utc(csv[i].timestamp_utc),
                   intensity |-> csv[i].intensity]]
        df_bike == drop_duplicates(df, {"counter_id", "timestamp_utc"})
    IN  [i \in DOMAIN df_bike |-> [df_bike[i] EXCEPT !.timestamp_utc = strftime(@)]]

\* df["intensity"].astype(int) refuses a missing value (ValueError)
load_bike_csv_raises(csv) == \E i \in DOMAIN csv : csv[i].intensity = NaN

\* load_weather_csv on a CSV with the columns of the table
load_weather_csv(csv) ==
    LET df == [i \in DOMAIN csv |->
                  [csv[i] EXCEPT !.timestamp_utc = to_datetime_utc(@)]]
        df_weather_ == drop_duplicates(df, {"timestamp_utc"})
    IN  [i \in DOMAIN df_weather_ |-> [df_weather_[i] EXCEPT !.timestamp_utc = strftime(@)]]

\* Longest CSV file of the loading specification.
MaxCsvRows == 3

LoadDay == 2

CsvText(wall, offset) == [wall |-> wall, offset |-> offset]

CsvBikeRow(c, text, n) == [ecocounter_id |-> c, timestamp_utc |-> text, intensity |-> n]

\* texts around 01:00 of LoadDay: the hour in UTC, the same instant written
\* one hour east, the half hour after it, and the hour before it
LoadTexts ==
    {CsvText(midnight(LoadDay) + Hours(1), 0),
     CsvText(midnight(LoadDay) + Hours(2), Hours(1)),
     CsvText(midnight(LoadDay) + Hours(1) + 30, 0),
     CsvText(midnight(LoadDay) + Hours(1), Hours(1))}

LoadBikeCsvs ==
    SeqsUpTo({CsvBikeRow(c, t, n) : c \in {1, 2}, t \in LoadTexts, n \in {3, 4}}, MaxCsvRows)
    \cup {<<CsvBikeRow(1, t, NaN)>> : t \in LoadTexts}

InitLoad ==
    /\ now = midnight(LoadDay + 1)
    /\ ticks = 0
    /\ feed = << >>
    /\ pc = "load_bike"
    /\ bike_hourly \in {<< >>, <<BikeRow(1, midnight(LoadDay), 9)>>}
    /\ weather_hourly = << >> /\ holidays = << >>
    /\ weather_forecast_hourly = << >>
    /\ bike_predictions_hourly_prophet = << >>
    /\ bike_predictions_hourly_xgboost = << >>
    /\ df_tomorrow = << >> /\ forecast_day = -1
    /\ df_weather = << >> /\ df_holidays = << >> /\ df_forecast_weather = << >>
    /\ idx = 0 /\ all_preds = << >>
    /\ df_joined = [prophet |-> << >>, xgboost |-> << >>]
    /\ df_train = [prophet |-> << >>, xgboost |-> << >>]
    /\ df_future = [prophet |-> << >>, xgboost |-> << >>]
    /\ fits = {} /\ predicts = {} /\ log = {} /\ writes = << >> /\ error = "none"
    /\ csv_bike \in LoadBikeCsvs
    /\ csv_weather = << >>
    /\ api_ts = << >> /\ api_counters = << >> /\ api_weather = << >>
    /\ etl_i = 0 /\ all_dfs = << >> /\ df_etl = << >>
    /\ runs = 0
    /\ counters = << >>
    /\ AtRest

\* load_bike_hourly.main: load_bike_csv, then upsert_bike_hourly
LoadBikeHourly(next) ==
    /\ pc = "load_bike"
    /\ IF load_bike_csv_raises(csv_bike)
       THEN /\ pc' = "failed"
            /\ error' = "intensity astype(int)"
            /\ UNCHANGED <<bike_hourly, writes>>
       ELSE /\ bike_hourly' =
                  upsert_chunks(bike_hourly, chunks(load_bike_csv(csv_bike), LoaderChunkSize),
                                {"counter_id", "timestamp_utc"})
            /\ writes' = writes \o chunk_writes("bike_hourly", load_bike_csv(csv_bike),
                                                LoaderChunkSize)
            /\ pc' = next
            /\ error' = error
    /\ UNCHANGED <<now, ticks, feed, weather_hourly, holidays, weather_forecast_hourly,
                   bike_predictions_hourly_prophet, bike_predictions_hourly_xgboost,
                   df_tomorrow, forecast_day, df_weather, df_holidays,
                   df_forecast_weather, idx, all_preds, df_joined, df_train, df_future,
                   fits, predicts, log, outside>>

LoadBikeCsv == LoadBikeHourly("loaded")

NextLoad == LoadBikeCsv

SpecLoad == InitLoad /\ [][NextLoad]_vars

\* the records the run sent to a table, over all its upsert_df calls
Sent(table_name) ==
    concat([i \in DOMAIN writes |->
               IF writes[i].table = table_name THEN writes[i].records ELSE << >>])

\* the key of a CSV row of readings: counter and instant
CsvKey(row) == <<row.ecocounter_id, to_datetime_utc(row.timestamp_utc)>>

\* the key of a record sent to bike_hourly
SentKey(r) == <<r.counter_id, timestamptz(r.timestamp_utc)>>

(* C17: the rows load_bike_csv sends to bike_hourly hold at most one row   *)
(* per (counter_id, timestamp_utc): of the CSV rows with the same key only *)
(* the first is kept, and every key of the CSV is kept, in CSV order.      *)
C17_OneRowPerKeyFirstKept ==
    pc = "loaded" =>
        LET sent == Sent("bike_hourly")
            firsts == SelectSeq([i \in DOMAIN csv_bike |-> i],
                          LAMBDA i : \A j \in 1..(i - 1) :
                                        CsvKey(csv_bike[j]) # CsvKey(csv_bike[i]))
        IN  /\ \A i, j \in DOMAIN sent : SentKey(sent[i]) = SentKey(sent[j]) => i = j
            /\ Len(sent) = Len(firsts)
            /\ \A k \in DOMAIN firsts :
                  /\ SentKey(sent[k]) = CsvKey(csv_bike[firsts[k]])
                  /\ sent[k].intensity = csv_bike[firsts[k]].intensity

C17_Witness ==
    /\ pc = "loaded"
    /\ Len(csv_bike) = 3
    /\ Len(Sent("bike_hourly")) = 2
    /\ CsvKey(csv_bike[1]) = CsvKey(csv_bike[3])
    /\ csv_bike[1].timestamp_utc # csv_bike[3].timestamp_utc
    /\ csv_bike[1].intensity # csv_bike[3].intensity

(* C18: every row written to bike_hourly has a timestamp truncated to the  *)
(* hour in UTC (minutes zero), whatever timestamps the CSV contained.      *)
C18_WrittenTimestampsOnTheHour ==
    /\ \A r \in Rows(Sent("bike_hourly")) : r.timestamp_utc[3] = 0
    /\ \A r \in Rows(bike_hourly) : minute(r.timestamp_utc) = 0

-----------------------------------------------------------------------------
(* db_supabase.upsert_df called twice with the same frame *)

\* the store refuses a batch that holds the same key twice
\* (ON CONFLICT DO UPDATE cannot affect a row a second time)
upsert_raises(records, key) ==
    \E i, j \in DOMAIN records : i # j /\ \A k \in key : records[i][k] = records[j][k]

\* upsert_df: nothing is sent for an empty frame
upsert_df(table, df, key) == IF df = << >> THEN table ELSE upsert(table, df, key)

\* Longest batch and longest prior table of the upsert specification.
MaxBatchRows == 2

UpsertDay == 3

PredRow(c, t, y) == [counter_id |-> c, timestamp_utc |-> t, yhat |-> y]

UpsertRows ==
    {PredRow(c, midnight(UpsertDay) + Hours(h), y) : c \in {1, 2}, h \in {0, 1}, y \in {5, 6}}

UpsertBatches == SeqsUpTo(UpsertRows, MaxBatchRows)

\* a table holds one row per key
UpsertTables == {t \in SeqsUpTo(UpsertRows, MaxBatchRows) : ~upsert_raises(t, {"counter_id", "timestamp_utc"})}

InitUpsert ==
    /\ now = midnight(UpsertDay)
    /\ ticks = 0
    /\ feed = << >>
    /\ pc = "upsert"
    /\ Quiet
    /\ bike_hourly = << >> /\ weather_hourly = << >> /\ holidays = << >>
    /\ weather_forecast_hourly = << >>
    /\ bike_predictions_hourly_prophet \in UpsertTables
    /\ bike_predictions_hourly_xgboost = << >>
    /\ df_tomorrow = << >> /\ forecast_day = -1
    /\ df_weather = << >> /\ df_holidays = << >> /\ df_forecast_weather = << >>
    /\ idx = 0
    /\ all_preds \in {<<b>> : b \in UpsertBatches}
    /\ df_joined = [prophet |-> << >>, xgboost |-> << >>]
    /\ df_train = [prophet |-> << >>, xgboost |-> << >>]
    /\ df_future = [prophet |-> << >>, xgboost |-> << >>]
    /\ fits = {} /\ predicts = {} /\ log = {} /\ writes = << >> /\ error = "none"

\* upsert_df("bike_predictions_hourly_prophet", df_all_preds)
UpsertDf(from, to) ==
    /\ pc = from
    /\ LET df == with_strftime(concat(all_preds))
       IN  IF df # << >> /\ upsert_raises(df, {"counter_id", "timestamp_utc"})
           THEN /\ pc' = "failed"
                /\ error' = "upsert rejected"
                /\ UNCHANGED <<bike_predictions_hourly_prophet, writes>>
           ELSE /\ bike_predictions_hourly_prophet' =
                      upsert_df(bike_predictions_hourly_prophet, df,
                                {"counter_id", "timestamp_utc"})
                /\ writes' = IF df = << >> THEN writes
                             ELSE Append(writes, [table |-> "bike_predictions_hourly_prophet",
                                                  records |-> df])
                /\ pc' = to
                /\ error' = error
    /\ UNCHANGED <<now, ticks, feed, bike_hourly, weather_hourly, holidays,
                   weather_forecast_hourly, bike_predictions_hourly_xgboost,
                   df_tomorrow, forecast_day, df_weather, df_holidays,
                   df_forecast_weather, idx, all_preds, df_joined, df_train, df_future,
                   fits, predicts, log, outside>>

UpsertOnce == UpsertDf("upsert", "once")

UpsertTwice == UpsertDf("once", "twice")

NextUpsert == UpsertOnce \/ UpsertTwice

SpecUpsert == InitUpsert /\ [][NextUpsert]_vars

(* C15: persisting the same batch a second time through upsert_df leaves   *)
(* the table with the same rows and the same row count as persisting it    *)
(* once, whatever the table held before.                                   *)
C15_UpsertTwiceIsUpsertOnce ==
    [][pc = "once" /\ pc' = "twice" =>
          /\ bike_predictions_hourly_prophet' = bike_predictions_hourly_prophet
          /\ Len(bike_predictions_hourly_prophet') = Len(bike_predictions_hourly_prophet)]_vars

\* a two-row batch sent twice onto a table that held one of its keys and one other
C15_Witness ==
    /\ pc = "twice"
    /\ Len(writes) = 2
    /\ writes[1].records = writes[2].records
    /\ Len(writes[1].records) = 2
    /\ Len(bike_predictions_hourly_prophet) = 3

-----------------------------------------------------------------------------
(* etl/bike_client.py, etl/bike_etl.py, etl/weather_client.py,             *)
(* etl/weather_etl.py: the fetches from the upstream APIs.  An answer of   *)
(* an API is [status, rows]: status "error" is a network or HTTP failure   *)
(* (requests raises, or raise_for_status does), "malformed" a JSON body    *)
(* whose index and values differ in length, "object" a JSON body that is   *)
(* no list, "ok" a well-formed body.                                       *)

\* the years build_year_chunks cuts the period into
EtlChunks == 2

EtlDay == 2

Answer(status, rows) == [status |-> status, rows |-> rows]

\* what fetch_timeseries hands back: None, a frame, or an exception
Returned(status, rows) == [status |-> status, rows |-> rows]

\* fetch_timeseries without its try/except around the request
fetch_timeseries_unguarded(counter_id, answer) ==
    IF answer.status \in {"error", "malformed"} THEN Returned("raised", << >>)
    ELSE IF answer.rows = << >> THEN Returned("none", << >>)
    ELSE Returned("frame",
             [i \in DOMAIN answer.rows |->
                 [timestamp_utc |-> to_datetime_utc(answer.rows[i].index),
                  intensity |-> answer.rows[i].value,
                  ecocounter_id |-> counter_id]])

\* BikeAPIClient.fetch_timeseries
fetch_timeseries(counter_id, answer) ==
    IF answer.status = "error" THEN Returned("none", << >>)
    ELSE IF answer.status = "malformed" THEN Returned("raised", << >>)
    ELSE IF answer.rows = << >> THEN Returned("none", << >>)
    ELSE Returned("frame",
             [i \in DOMAIN answer.rows |->
                 [timestamp_utc |-> to_datetime_utc(answer.rows[i].index),
                  intensity |-> answer.rows[i].value,
                  ecocounter_id |-> counter_id]])

\* BikeAPIClient.fetch_all_counters over the pages the API answers with; a
\* request past the last page is answered with an empty list
RECURSIVE fetch_all_counters(_)
fetch_all_counters(pages) ==
    IF pages = << >> THEN Returned("frame", << >>)
    ELSE IF Head(pages).status = "error" THEN Returned("raised", << >>)
    ELSE IF Head(pages).status # "ok" \/ Head(pages).rows = << >>
         THEN Returned("frame", << >>)
    ELSE LET rest == fetch_all_counters(Tail(pages))
         IN  IF rest.status = "raised" THEN rest
             ELSE Returned("frame", Head(pages).rows \o rest.rows)

\* WeatherAPIClient.fetch_hourly_history
fetch_hourly_history(answer) ==
    IF answer.status # "ok" THEN Returned("raised", << >>)
    ELSE Returned("frame", answer.rows)

\* the (counter, chunk) pairs in the order of the two nested loops
EtlRequests ==
    [i \in 1..(Len(SELECTED_COUNTERS) * EtlChunks) |->
        [cid |-> SELECTED_COUNTERS[((i - 1) \div EtlChunks) + 1],
         chunk |-> ((i - 1) % EtlChunks) + 1]]

\* drop_duplicates(["ecocounter_id", "timestamp_utc"]).sort_values([...])
etl_result(frames) ==
    SortSeq(drop_duplicates(concat(frames), {"ecocounter_id", "timestamp_utc"}),
            LAMBDA a, b : \/ a.ecocounter_id < b.ecocounter_id
                          \/ /\ a.ecocounter_id = b.ecocounter_id
                             /\ a.timestamp_utc < b.timestamp_utc)

\* DataFrame.to_csv of the readings
bike_to_csv(df) ==
    [i \in DOMAIN df |->
        CsvBikeRow(df[i].ecocounter_id, CsvText(df[i].timestamp_utc, 0), df[i].intensity)]

\* DataFrame.to_csv of the weather history
weather_to_csv(df) ==
    [i \in DOMAIN df |-> [df[i] EXCEPT !.timestamp_utc = CsvText(@, 0)]]

\* the body the API holds for a (counter, chunk) pair: two readings, latest
\* first, the later one at the hour the next chunk starts with
TsBody(r) ==
    <<[index |-> CsvText(midnight(EtlDay) + Hours(r.chunk), 0), value |-> (10 * r.cid) + r.chunk],
      [index |-> CsvText(midnight(EtlDay) + Hours(r.chunk - 1), 0), value |-> r.cid]>>

TsAnswers(r) ==
    {Answer("error", << >>), Answer("malformed", << >>), Answer("ok", << >>),
     Answer("ok", TsBody(r))}

CounterPages ==
    SeqsUpTo({Answer("error", << >>), Answer("object", << >>), Answer("ok", << >>),
              Answer("ok", <<[id |-> 1]>>), Answer("ok", <<[id |-> 2], [id |-> 3]>>)}, 3)
    \ {<< >>}

WeatherAnswers ==
    {Answer("error", << >>), Answer("ok", << >>),
     Answer("ok", <<WeatherRow(midnight(EtlDay), 11, 50),
                    WeatherRow(midnight(EtlDay) + Hours(1), 12, NaN)>>)}

InitEtl ==
    /\ now = midnight(EtlDay) + Hours(EtlChunks)
    /\ ticks = 0
    /\ feed = << >>
    /\ Blank
    /\ csv_bike = << >> /\ csv_weather = << >>
    /\ etl_i = 1 /\ all_dfs = << >> /\ df_etl = << >>
    /\ runs = 0
    /\ counters = << >>
    /\ AtRest
    /\ \/ /\ pc = "bike_etl"
          /\ api_ts \in {a \in [DOMAIN EtlRequests ->
                                  UNION {TsAnswers(EtlRequests[i]) : i \in DOMAIN EtlRequests}] :
                            \A i \in DOMAIN EtlRequests : a[i] \in TsAnswers(EtlRequests[i])}
          /\ api_counters = << >> /\ api_weather = << >>
       \/ /\ pc = "counters"
          /\ api_counters \in CounterPages
          /\ api_ts = << >> /\ api_weather = << >>
       \/ /\ pc = "weather_etl"
          /\ api_weather \in {<<a>> : a \in WeatherAnswers}
          /\ api_ts = << >> /\ api_counters = << >>

etl_frame == <<now, ticks, feed, tables, df_tomorrow, forecast_day, predictor_locals,
               upstream, runs, counters, aside>>

\* one turn of the loops of fetch_bike_history_for_counters; an exception of
\* fetch_timeseries leaves the loops and the script
EtlFetch ==
    /\ pc = "bike_etl"
    /\ etl_i <= Len(EtlRequests)
    /\ LET df_ts == fetch_timeseries(EtlRequests[etl_i].cid, api_ts[etl_i])
       IN  IF df_ts.status = "raised"
           THEN /\ pc' = "failed"
                /\ error' = "fetch_timeseries raised"
                /\ UNCHANGED <<etl_i, all_dfs>>
           ELSE /\ all_dfs' = IF df_ts.status = "frame" /\ df_ts.rows # << >>
                              THEN Append(all_dfs, df_ts.rows) ELSE all_dfs
                /\ etl_i' = etl_i + 1
                /\ UNCHANGED <<pc, error>>
    /\ UNCHANGED <<etl_frame, files, df_etl>>

\* the tail of fetch_bike_history_for_counters, and run_bike_etl_for_selected
\* writing the CSV
EtlFinish ==
    /\ pc = "bike_etl"
    /\ etl_i > Len(EtlRequests)
    /\ df_etl' = IF all_dfs = << >> THEN << >> ELSE etl_result(all_dfs)
    /\ csv_bike' = bike_to_csv(df_etl')
    /\ pc' = "etl_done"
    /\ UNCHANGED <<etl_frame, csv_weather, etl_i, all_dfs, error>>

\* client.fetch_all_counters() as load_counters.run calls it
FetchAllCounters ==
    /\ pc = "counters"
    /\ LET df_all == fetch_all_counters(api_counters)
       IN  IF df_all.status = "raised"
           THEN /\ pc' = "failed"
                /\ error' = "fetch_all_counters raised"
                /\ UNCHANGED df_etl
           ELSE /\ df_etl' = df_all.rows
                /\ pc' = "counters_done"
                /\ error' = error
    /\ UNCHANGED <<etl_frame, files, etl_i, all_dfs>>

\* run_weather_hourly_etl: fetch_hourly_history, then the CSV
RunWeatherHourlyEtl ==
    /\ pc = "weather_etl"
    /\ LET df == fetch_hourly_history(api_weather[1])
       IN  IF df.status = "raised"
           THEN /\ pc' = "failed"
                /\ error' = "fetch_hourly_history raised"
                /\ UNCHANGED <<df_etl, csv_weather>>
           ELSE /\ df_etl' = df.rows
                /\ csv_weather' = weather_to_csv(df.rows)
                /\ pc' = "weather_done"
                /\ error' = error
    /\ UNCHANGED <<etl_frame, csv_bike, etl_i, all_dfs>>

NextEtl == EtlFetch \/ EtlFinish \/ FetchAllCounters \/ RunWeatherHourlyEtl

SpecEtl == InitEtl /\ [][NextEtl]_vars

\* the requests of the bike ETL that were answered well, with their frames
EtlAnswered == {i \in DOMAIN api_ts : api_ts[i].status = "ok" /\ api_ts[i].rows # << >>}

EtlKey(r) == <<r.ecocounter_id, r.timestamp_utc>>

\* the pages fetch_all_counters asks for: up to the first empty or failed one
RECURSIVE PagesAsked(_)
PagesAsked(pages) ==
    IF pages = << >> THEN << >>
    ELSE IF Head(pages).status # "ok" \/ Head(pages).rows = << >> THEN <<Head(pages)>>
    ELSE <<Head(pages)>> \o PagesAsked(Tail(pages))

(* C19: in the bike history ETL a network/HTTP failure of one timeseries   *)
(* fetch is "no data for this chunk": fetch_timeseries returns None, the   *)
(* failure never ends the run, and the rows of every other (counter,       *)
(* chunk) pair are in the result; a failure of fetch_all_counters or of    *)
(* the weather fetch reaches the caller as an exception.                   *)
C19_TimeseriesFailureIsNoDataOthersPropagate ==
    /\ \A i \in DOMAIN api_ts :
          api_ts[i].status = "error" =>
              fetch_timeseries(EtlRequests[i].cid, api_ts[i]) = Returned("none", << >>)
    /\ (api_ts # << >> /\ \A i \in DOMAIN api_ts : api_ts[i].status # "malformed") =>
          pc # "failed"
    /\ pc = "etl_done" =>
          /\ \A i \in EtlAnswered :
                \A r \in Rows(fetch_timeseries(EtlRequests[i].cid, api_ts[i]).rows) :
                    \E k \in DOMAIN df_etl : EtlKey(df_etl[k]) = EtlKey(r)
          /\ \A k \in DOMAIN df_etl :
                \E i \in EtlAnswered :
                    df_etl[k] \in Rows(fetch_timeseries(EtlRequests[i].cid, api_ts[i]).rows)
    /\ (pc \notin {"counters"} /\ \E i \in DOMAIN PagesAsked(api_counters) :
                                      PagesAsked(api_counters)[i].status = "error") =>
          pc = "failed" /\ error = "fetch_all_counters raised" /\ df_etl = << >>
    /\ (pc \notin {"weather_etl"} /\ api_weather # << >> /\ api_weather[1].status = "error") =>
          pc = "failed" /\ error = "fetch_hourly_history raised" /\ csv_weather = << >>

\* the second request fails, the three others are answered, and the run ends
\* with the rows of the three (one hour is in two chunks of the same counter)
C19_Witness ==
    /\ pc = "etl_done"
    /\ api_ts[2].status = "error"
    /\ EtlAnswered = {1, 3, 4}
    /\ Len(df_etl) = 5

-----------------------------------------------------------------------------
(* pipeline.py at the root of the repository: the helpers that clear the   *)
(* tables.  A delete is sent with the filter any_column != '__CLEAR__'.    *)
(* Counter ids are numbered in the model: the text '__CLEAR__' in a text   *)
(* column is the number CLEAR, which is no counter id and no instant.      *)

\* the text "__CLEAR__" of the filter, as a value of a column
CLEAR == -2

\* the columns the schema types as timestamptz or date: the filter compares
\* them with a text that is no timestamp
TypedColumns == {"timestamp_utc", "date"}

\* what the store can do with the filter on a column: a text column is
\* compared; for a typed column the store casts the text first, and either
\* rejects the request or (a text column after all) compares
filter_outcomes(any_column) ==
    IF any_column \in TypedColumns THEN {"rejected", "taken"} ELSE {"taken"}

\* DELETE ... WHERE any_column <> '__CLEAR__' with every row kept, whatever
\* the row holds
delete_nothing(rows, any_column) == rows

\* DELETE ... WHERE any_column <> '__CLEAR__': a row goes when the
\* comparison is true of it; it is not true of a row that holds the text,
\* nor of a row that holds NULL
delete_neq(rows, any_column) ==
    SelectSeq(rows, LAMBDA r : r[any_column] = CLEAR \/ r[any_column] = NaN)

\* the store after the delete was executed on one table
delete_executed(table_name, any_column) ==
    /\ bike_hourly' = IF table_name = "bike_hourly"
                      THEN delete_neq(bike_hourly, any_column) ELSE bike_hourly
    /\ weather_hourly' = IF table_name = "weather_hourly"
                         THEN delete_neq(weather_hourly, any_column) ELSE weather_hourly
    /\ holidays' = IF table_name = "holidays"
                   THEN delete_neq(holidays, any_column) ELSE holidays
    /\ counters' = IF table_name = "counters"
                   THEN delete_neq(counters, any_column) ELSE counters
    /\ weather_forecast_hourly' =
          IF table_name = "weather_forecast_hourly"
          THEN delete_neq(weather_forecast_hourly, any_column) ELSE weather_forecast_hourly
    /\ bike_predictions_hourly_prophet' =
          IF table_name = "bike_predictions_hourly_prophet"
          THEN delete_neq(bike_predictions_hourly_prophet, any_column)
          ELSE bike_predictions_hourly_prophet
    /\ bike_predictions_hourly_xgboost' =
          IF table_name = "bike_predictions_hourly_xgboost"
          THEN delete_neq(bike_predictions_hourly_xgboost, any_column)
          ELSE bike_predictions_hourly_xgboost

\* _delete_all_rows(table, any_column): the request is executed and the
\* function returns, or the store rejects it and the exception leaves the
\* caller
delete_all_rows(table_name, any_column, returned) ==
    \E outcome \in filter_outcomes(any_column) :
        IF outcome = "rejected"
        THEN /\ pc' = "failed"
             /\ error' = "delete rejected"
             /\ UNCHANGED <<tables, counters>>
        ELSE /\ delete_executed(table_name, any_column)
             /\ pc' = returned
             /\ error' = error

\* reset_predictions_tables: three deletes, the first of them on the typed
\* column timestamp_utc
reset_predictions_tables(returned) ==
    /\ \E outcome \in filter_outcomes("timestamp_utc") :
          IF outcome = "rejected"
          THEN /\ pc' = "failed"
               /\ error' = "delete rejected"
               /\ UNCHANGED <<weather_forecast_hourly, bike_predictions_hourly_prophet,
                              bike_predictions_hourly_xgboost>>
          ELSE /\ weather_forecast_hourly' =
                     delete_neq(weather_forecast_hourly, "timestamp_utc")
               /\ bike_predictions_hourly_prophet' =
                     delete_neq(bike_predictions_hourly_prophet, "counter_id")
               /\ bike_predictions_hourly_xgboost' =
                     delete_neq(bike_predictions_hourly_xgboost, "counter_id")
               /\ pc' = returned
               /\ error' = error
    /\ UNCHANGED <<now, ticks, feed, bike_hourly, weather_hourly, holidays, df_tomorrow,
                   forecast_day, predictor_locals, outside>>

\* no predictor and no forecast update has run
NoPredictor ==
    /\ df_tomorrow = << >> /\ forecast_day = -1
    /\ df_weather = << >> /\ df_holidays = << >> /\ df_forecast_weather = << >>
    /\ idx = 0 /\ all_preds = << >>
    /\ df_joined = [prophet |-> << >>, xgboost |-> << >>]
    /\ df_train = [prophet |-> << >>, xgboost |-> << >>]
    /\ df_future = [prophet |-> << >>, xgboost |-> << >>]
    /\ fits = {} /\ predicts = {} /\ log = {} /\ writes = << >> /\ error = "none"

\* no file, no upstream answer, no ETL and no earlier script
NoEtl ==
    /\ csv_bike = << >> /\ csv_weather = << >>
    /\ api_ts = << >> /\ api_counters = << >> /\ api_weather = << >>
    /\ etl_i = 0 /\ all_dfs = << >> /\ df_etl = << >>
    /\ runs = 0

\* Rows, at most, of a table before a delete.
MaxDeleteRows == 2

DeleteDay == 4

\* the calls of _delete_all_rows in pipeline.py
DeleteCalls ==
    {[table |-> "bike_hourly", any_column |-> "counter_id"],
     [table |-> "weather_hourly", any_column |-> "timestamp_utc"],
     [table |-> "holidays", any_column |-> "date"],
     [table |-> "counters", any_column |-> "id"],
     [table |-> "weather_forecast_hourly", any_column |-> "timestamp_utc"],
     [table |-> "bike_predictions_hourly_prophet", any_column |-> "counter_id"],
     [table |-> "bike_predictions_hourly_xgboost", any_column |-> "counter_id"]}

\* the values a text column of ids can hold
DeleteIds == {1, 2, CLEAR}

\* rows a table can hold before the delete
DeleteRows(table_name) ==
    IF table_name = "bike_hourly"
    THEN {BikeRow(c, midnight(DeleteDay) + Hours(h), 3) : c \in DeleteIds, h \in {0, 1}}
    ELSE IF table_name = "counters"
    THEN {[id |-> c] : c \in DeleteIds}
    ELSE IF table_name = "holidays"
    THEN {HolidayRow(d, "Toussaint") : d \in {DeleteDay, DeleteDay + 1}}
    ELSE IF table_name \in {"weather_hourly", "weather_forecast_hourly"}
    THEN {WeatherRow(midnight(DeleteDay) + Hours(h), 12, 50) : h \in {0, 1}}
    ELSE {PredRow(c, midnight(DeleteDay) + Hours(h), 7) : c \in DeleteIds, h \in {0, 1}}

\* the contents of a table: rows that differ pairwise
DeleteContents(table_name) ==
    {c \in SeqsUpTo(DeleteRows(table_name), MaxDeleteRows) :
        \A i, j \in DOMAIN c : i # j => c[i] # c[j]}

holds(table_name, content, name) == IF table_name = name THEN content ELSE << >>

InitDelete ==
    /\ now = midnight(DeleteDay + 1)
    /\ ticks = 0
    /\ feed = << >>
    /\ pc = "delete"
    /\ args \in DeleteCalls
    /\ \E content \in DeleteContents(args.table) :
          /\ bike_hourly = holds(args.table, content, "bike_hourly")
          /\ weather_hourly = holds(args.table, content, "weather_hourly")
          /\ holidays = holds(args.table, content, "holidays")
          /\ counters = holds(args.table, content, "counters")
          /\ weather_forecast_hourly = holds(args.table, content, "weather_forecast_hourly")
          /\ bike_predictions_hourly_prophet =
                holds(args.table, content, "bike_predictions_hourly_prophet")
          /\ bike_predictions_hourly_xgboost =
                holds(args.table, content, "bike_predictions_hourly_xgboost")
    /\ NoPredictor
    /\ NoEtl
    /\ csv_holidays = << >> /\ locals = << >> /\ requests = << >>

\* one call of _delete_all_rows(table, any_column)
DeleteAllRows ==
    /\ pc = "delete"
    /\ delete_all_rows(args.table, args.any_column, "deleted")
    /\ UNCHANGED <<now, ticks, feed, df_tomorrow, forecast_day, predictor_locals,
                   files, upstream, etl_locals, runs, aside>>

NextDelete == DeleteAllRows

SpecDelete == InitDelete /\ [][NextDelete]_vars

-----------------------------------------------------------------------------
(* The chunked uploads on their own: upsert_bike_hourly,                   *)
(* upsert_weather_hourly and upsert_weather_forecast, for any frame and    *)
(* any chunk_size.                                                         *)

\* Rows, at most, of the frame handed to a chunked upload.
MaxChunkedRows == 4

\* Largest chunk_size of a chunked upload.
MaxChunkSize == 3

ChunkedDay == 3

\* the three chunked uploads, with the table and the key of each
ChunkedTables == {"bike_hourly", "weather_hourly", "weather_forecast_hourly"}

key_of(table_name) ==
    IF table_name = "bike_hourly" THEN {"counter_id", "timestamp_utc"} ELSE {"timestamp_utc"}

\* the record of hour h as a loader prepares it for a table
ChunkedRow(table_name, h) ==
    IF table_name = "bike_hourly"
    THEN [counter_id |-> 1, timestamp_utc |-> strftime(midnight(ChunkedDay) + Hours(h)),
          intensity |-> h]
    ELSE [WeatherRow(0, 10 + h, 50) EXCEPT
             !.timestamp_utc = strftime(midnight(ChunkedDay) + Hours(h))]

\* the frames: rows of different hours, in any order
ChunkedFrames(table_name) ==
    {[i \in DOMAIN hs |-> ChunkedRow(table_name, hs[i])] :
        hs \in {x \in SeqsUpTo(1..MaxChunkedRows, MaxChunkedRows) :
                   \A i, j \in DOMAIN x : i # j => x[i] # x[j]}}

InitChunked ==
    /\ now = midnight(ChunkedDay + 1)
    /\ ticks = 0
    /\ feed = << >>
    /\ pc = "upsert_chunked"
    /\ \E table_name \in ChunkedTables :
       \E df \in ChunkedFrames(table_name) :
       \E chunk_size \in 1..MaxChunkSize :
          args = [table |-> table_name, df |-> df, chunk_size |-> chunk_size]
    /\ Blank
    /\ NoEtl
    /\ counters = << >>
    /\ csv_holidays = << >> /\ locals = << >> /\ requests = << >>

\* upsert_bike_hourly / upsert_weather_hourly / upsert_weather_forecast:
\* the loop over the chunks, one upsert_df per chunk
UpsertChunked ==
    /\ pc = "upsert_chunked"
    /\ LET cs == chunks(args.df, args.chunk_size)
           stored(old) == upsert_chunks(old, cs, key_of(args.table))
       IN  /\ bike_hourly' = IF args.table = "bike_hourly"
                             THEN stored(bike_hourly) ELSE bike_hourly
           /\ weather_hourly' = IF args.table = "weather_hourly"
                                THEN stored(weather_hourly) ELSE weather_hourly
           /\ weather_forecast_hourly' =
                 IF args.table = "weather_forecast_hourly"
                 THEN stored(weather_forecast_hourly) ELSE weather_forecast_hourly
    /\ writes' = writes \o chunk_writes(args.table, args.df, args.chunk_size)
    /\ pc' = "upserted"
    /\ UNCHANGED <<now, ticks, feed, holidays, bike_predictions_hourly_prophet,
                   bike_predictions_hourly_xgboost, df_tomorrow, forecast_day,
                   df_weather, df_holidays, df_forecast_weather, idx, all_preds,
                   df_joined, df_train, df_future, fits, predicts, log, error, outside>>

NextChunked == UpsertChunked

SpecChunked == InitChunked /\ [][NextChunked]_vars

-----------------------------------------------------------------------------
(* etl/bike_etl.py: build_year_chunks on its own.  Its datetimes are       *)
(* counted in whole SECONDS since 1970-01-01T00:00:00 UTC, the resolution  *)
(* of its timedelta(seconds=1).                                            *)

\* Calendar years, from 1970 on, the datetimes of build_year_chunks lie in.
MaxYears == 3

SecondsPerDay == 86400

days_in_year(y) ==
    IF (y % 4 = 0 /\ y % 100 # 0) \/ y % 400 = 0 THEN 366 ELSE 365

\* dt.datetime(y, 1, 1, tzinfo=utc)
RECURSIVE year_start(_)
year_start(y) ==
    IF y = 1970 THEN 0 ELSE year_start(y - 1) + days_in_year(y - 1) * SecondsPerDay

\* datetime.year
year_of(t) ==
    CHOOSE y \in 1970..(1970 + MaxYears) : year_start(y) <= t /\ t < year_start(y + 1)

min(a, b) == IF a <= b THEN a ELSE b

\* build_year_chunks(start, end): the while loop, from current on
RECURSIVE build_year_chunks(_, _)
build_year_chunks(current, end_dt) ==
    IF ~(current < end_dt) THEN << >>
    ELSE LET next_year == year_start(year_of(current) + 1)
             chunk_end == min(next_year - 1, end_dt)
         IN  <<[start |-> current, end |-> chunk_end]>>
                 \o build_year_chunks(next_year, end_dt)

\* datetimes around the turns of the years: the first second of a year, the
\* second before, the second after, an hour and some months into the year
YearInstants ==
    {t \in {year_start(y) + d : y \in 1970..(1970 + MaxYears - 1),
                                d \in {-1, 0, 1, 3600, 200 * SecondsPerDay}} : t >= 0}

InitYears ==
    /\ now = 0
    /\ ticks = 0
    /\ feed = << >>
    /\ pc = "build_year_chunks"
    /\ \E start \in YearInstants : \E end_dt \in YearInstants :
          args = [start |-> start, end |-> end_dt]
    /\ Blank
    /\ NoEtl
    /\ counters = << >>
    /\ csv_holidays = << >> /\ locals = << >> /\ requests = << >>

\* one call of build_year_chunks(start, end)
BuildYearChunks ==
    /\ pc = "build_year_chunks"
    /\ locals' = [chunks |-> build_year_chunks(args.start, args.end)]
    /\ pc' = "chunks_built"
    /\ UNCHANGED <<now, ticks, feed, tables, df_tomorrow, forecast_day, predictor_locals,
                   error, files, upstream, etl_locals, runs, counters, csv_holidays, args,
                   requests>>

NextYears == BuildYearChunks

SpecYears == InitYears /\ [][NextYears]_vars

-----------------------------------------------------------------------------
(* etl/bike_client.py: the paging loop of fetch_all_counters, one request  *)
(* at a time.  The registry answers the request for offset k * limit with  *)
(* its page k + 1, and with an empty list past its last page.              *)

\* Largest limit of fetch_all_counters.
MaxLimit == 2

\* the answer of the registry to GET /ecocounter?limit=..&offset=..
page_at(pages, offset, limit) ==
    IF (offset \div limit) + 1 \in DOMAIN pages
    THEN pages[(offset \div limit) + 1]
    ELSE Answer("ok", << >>)

\* a loop that moves on by the number of items it received
next_offset_by_items(offset, limit, data) == offset + Len(data)

\* offset += limit
next_offset(offset, limit, data) == offset + limit

InitPages ==
    /\ now = midnight(EtlDay)
    /\ ticks = 0
    /\ feed = << >>
    /\ pc = "fetch_all_counters"
    /\ Blank
    /\ csv_bike = << >> /\ csv_weather = << >>
    /\ api_ts = << >> /\ api_weather = << >>
    /\ api_counters \in SeqsUpTo({Answer("error", << >>), Answer("object", << >>),
                                  Answer("ok", << >>), Answer("ok", <<[id |-> 1]>>),
                                  Answer("ok", <<[id |-> 2], [id |-> 3]>>)}, 3)
    /\ etl_i = 0 /\ all_dfs = << >> /\ df_etl = << >>
    /\ runs = 0
    /\ counters = << >>
    /\ csv_holidays = << >>
    /\ \E limit \in 1..MaxLimit : args = [limit |-> limit]
    /\ locals = [offset |-> 0, all_results |-> << >>]
    /\ requests = << >>

\* one turn of the while True loop of fetch_all_counters: the request, then
\* the break and the return, or the extension of all_results
GetCountersPage ==
    /\ pc = "fetch_all_counters"
    /\ requests' = Append(requests, [limit |-> args.limit, offset |-> locals.offset])
    /\ LET data == page_at(api_counters, locals.offset, args.limit)
       IN  IF data.status = "error"
           THEN /\ pc' = "failed"
                /\ error' = "fetch_all_counters raised"
                /\ UNCHANGED <<locals, df_etl>>
           ELSE IF data.status # "ok" \/ data.rows = << >>
           THEN /\ pc' = "counters_fetched"
                /\ df_etl' = locals.all_results
                /\ UNCHANGED <<locals, error>>
           ELSE /\ locals' = [offset |-> next_offset(locals.offset, args.limit, data.rows),
                              all_results |-> locals.all_results \o data.rows]
                /\ UNCHANGED <<pc, error, df_etl>>
    /\ UNCHANGED <<now, ticks, feed, tables, df_tomorrow, forecast_day, predictor_locals,
                   files, upstream, etl_i, all_dfs, runs, counters, csv_holidays, args>>

NextPages == GetCountersPage

SpecPages == InitPages /\ [][NextPages]_vars /\ WF_vars(NextPages)

-----------------------------------------------------------------------------
(* Runs one after the other on the same store: pipeline.py main with its   *)
(* flags, and the predictors started on their own.                         *)

\* Scripts started, at most, in a behaviour.
MaxRuns == 2

\* data/processed/holidays_processed.csv
HolidaysCsv == <<HolidayRow(PipelineDay + 1, "Epiphanie")>>

\* load_holidays_csv: the columns date, name, year
load_holidays_csv(csv) ==
    [i \in DOMAIN csv |-> [date |-> csv[i].date, name |-> csv[i].name, year |-> csv[i].year]]

\* what the forecast API serves at an instant: the 24 hours of the next day,
\* or the same with a second, earlier, answer for its first hour
FeedsAt(now_utc) ==
    {HourlyFeed(midnight(tomorrow_of(now_utc)), 24, {}),
     <<FeedRow(midnight(tomorrow_of(now_utc)), 99)>>
         \o HourlyFeed(midnight(tomorrow_of(now_utc)), 24, {})}

\* the readings in the store at first: counter 1 has none or just enough to
\* be trained on, the others a full series
RunsSizes ==
    {[c \in 1..NumCounters |-> IF c = 1 THEN a ELSE MinTrainRows + 1] :
        a \in {0, MinTrainRows}}

\* the CSV files: one more reading of counter 1 than the store can hold at
\* first; the weather history written one hour east of UTC
RunsBikeCsv == bike_to_csv([i \in 1..(MinTrainRows + 1) |->
                               [ecocounter_id |-> 1, timestamp_utc |-> Hours(i - 1),
                                intensity |-> i % 7]])

RunsWeatherCsv ==
    [i \in DOMAIN WeatherHistory({}) |->
        [WeatherHistory({})[i] EXCEPT !.timestamp_utc = CsvText(@ + Hours(1), Hours(1))]]

Entries == {"reset", "reload", "forecast", "prophet", "xgboost"}

Loops == {"prophet_loop", "xgboost_loop"}

InitRuns ==
    /\ now = midnight(PipelineDay) + Hours(23)
    /\ ticks = 0
    /\ feed = << >>
    /\ pc = "idle"
    /\ runs = 0
    /\ \E sizes \in RunsSizes : bike_hourly = Readings(sizes, NumCounters)
    /\ weather_hourly \in {<< >>, WeatherHistory({})}
    /\ holidays \in {<< >>, HolidaysCsv}
    /\ weather_forecast_hourly = << >>
    /\ bike_predictions_hourly_prophet = << >>
    /\ bike_predictions_hourly_xgboost = << >>
    /\ df_tomorrow = << >> /\ forecast_day = -1
    /\ df_weather = << >> /\ df_holidays = << >> /\ df_forecast_weather = << >>
    /\ idx = 0 /\ all_preds = << >>
    /\ df_joined = [prophet |-> << >>, xgboost |-> << >>]
    /\ df_train = [prophet |-> << >>, xgboost |-> << >>]
    /\ df_future = [prophet |-> << >>, xgboost |-> << >>]
    /\ fits = {} /\ predicts = {} /\ log = {} /\ writes = << >> /\ error = "none"
    /\ csv_bike = RunsBikeCsv
    /\ csv_weather = RunsWeatherCsv
    /\ api_ts = << >> /\ api_weather = << >>
    /\ api_counters = <<Answer("ok", <<[id |-> 1], [id |-> 2]>>)>>
    /\ etl_i = 0 /\ all_dfs = << >> /\ df_etl = << >>
    /\ counters = << >>
    /\ csv_holidays = HolidaysCsv
    /\ args = << >> /\ locals = << >> /\ requests = << >>

\* the Prophet script has ended after its loop
ProphetEnded == pc = "xgboost" /\ idx > Len(SELECTED_COUNTERS)

\* a script is started: a new process, with nothing in its locals; the
\* forecast API serves what it serves at that time
Start(entry) ==
    /\ pc \in {"idle", "done", "failed"} \/ ProphetEnded
    /\ runs < MaxRuns
    /\ runs' = runs + 1
    /\ pc' = entry
    /\ feed' \in FeedsAt(now)
    /\ df_tomorrow' = << >> /\ forecast_day' = -1
    /\ df_weather' = << >> /\ df_holidays' = << >> /\ df_forecast_weather' = << >>
    /\ idx' = 0 /\ all_preds' = << >>
    /\ df_joined' = [prophet |-> << >>, xgboost |-> << >>]
    /\ df_train' = [prophet |-> << >>, xgboost |-> << >>]
    /\ df_future' = [prophet |-> << >>, xgboost |-> << >>]
    /\ fits' = {} /\ predicts' = {} /\ log' = {} /\ writes' = << >> /\ error' = "none"
    /\ UNCHANGED <<now, ticks, tables, files, upstream, etl_locals, counters, aside>>

StartRun == \E entry \in Entries : Start(entry)

\* main with --reset-predictions: reset_predictions_tables;
\* --reload-history may follow
ResetPredictionsTables ==
    /\ pc = "reset"
    /\ \E returned \in {"reload", "forecast"} : reset_predictions_tables(returned)

\* load_counters.run: the counters of the answer that are selected, their
\* columns id, name, lat, lon (the model keeps the id)
selected_counters(df_all) ==
    SelectSeq([i \in DOMAIN df_all |-> [id |-> df_all[i].id]],
              LAMBDA r : \E i \in DOMAIN SELECTED_COUNTERS : SELECTED_COUNTERS[i] = r.id)

\* load_counters.run raises: df_all["id"] of a frame without columns, the
\* unpacking of zip(*...) over no row, or the store on a repeated id
load_counters_raises(df_all) ==
    \/ df_all.status = "raised"
    \/ df_all.rows = << >>
    \/ selected_counters(df_all.rows) = << >>
    \/ upsert_raises(selected_counters(df_all.rows), {"id"})

\* load_static_history_from_csv, as main calls it with --reload-history:
\* the four loaders in their order
LoadStaticHistory ==
    /\ pc = "reload"
    /\ LET df_all == fetch_all_counters(api_counters)
           df_holidays_ == load_holidays_csv(csv_holidays)
           df_weather_ == load_weather_csv(csv_weather)
           df_bike == load_bike_csv(csv_bike)
           sent_counters == <<[table |-> "counters",
                               records |-> selected_counters(df_all.rows)]>>
           sent_holidays == IF df_holidays_ = << >> THEN << >>
                            ELSE <<[table |-> "holidays", records |-> df_holidays_]>>
           sent_weather == chunk_writes("weather_hourly", df_weather_, LoaderChunkSize)
           sent_bike == chunk_writes("bike_hourly", df_bike, LoaderChunkSize)
       IN  IF load_counters_raises(df_all)
           THEN /\ pc' = "failed"
                /\ error' = "load_counters raised"
                /\ UNCHANGED <<counters, holidays, weather_hourly, bike_hourly, writes>>
           ELSE /\ counters' = upsert_df(counters, selected_counters(df_all.rows), {"id"})
                /\ holidays' = upsert_df(holidays, df_holidays_, {"date"})
                /\ weather_hourly' =
                      upsert_chunks(weather_hourly, chunks(df_weather_, LoaderChunkSize),
                                    {"timestamp_utc"})
                /\ IF load_bike_csv_raises(csv_bike)
                   THEN /\ pc' = "failed"
                        /\ error' = "intensity astype(int)"
                        /\ writes' = writes \o sent_counters \o sent_holidays \o sent_weather
                        /\ UNCHANGED bike_hourly
                   ELSE /\ bike_hourly' =
                              upsert_chunks(bike_hourly, chunks(df_bike, LoaderChunkSize),
                                            {"counter_id", "timestamp_utc"})
                        /\ writes' = writes \o sent_counters \o sent_holidays
                                        \o sent_weather \o sent_bike
                        /\ pc' = "forecast"
                        /\ error' = error
    /\ UNCHANGED <<now, ticks, feed, weather_forecast_hourly,
                   bike_predictions_hourly_prophet, bike_predictions_hourly_xgboost,
                   df_tomorrow, forecast_day, df_weather, df_holidays,
                   df_forecast_weather, idx, all_preds, df_joined, df_train, df_future,
                   fits, predicts, log, files, upstream, etl_locals, runs, aside>>

\* the clock passes an hour while a predictor trains
TickInLoop ==
    /\ ticks < MaxTicks
    /\ pc \in Loops
    /\ now' = now + Hours(1)
    /\ ticks' = ticks + 1
    /\ UNCHANGED <<feed, tables, pc, df_tomorrow, forecast_day, predictor_locals, error,
                   outside>>

NextRuns ==
    \/ StartRun
    \/ ResetPredictionsTables
    \/ LoadStaticHistory
    \/ UpdateWeatherForecast
    \/ ProphetLoadShared
    \/ ProphetCounter
    \/ ProphetPersist
    \/ XgbLoadShared
    \/ XgbCounter
    \/ XgbPersist
    \/ TickInLoop

SpecRuns == InitRuns /\ [][NextRuns]_vars

-----------------------------------------------------------------------------
(* pipeline.py at the root of the repository: one run of main, for every   *)
(* combination of its flags, on a store that earlier runs have filled.     *)

\* Readings of each counter in the store when main starts.
MainRows == 3

\* the parsed command line
Flags == [reset_all : BOOLEAN, reset_predictions : BOOLEAN, reload_history : BOOLEAN]

\* a main whose first branch tests --reset-predictions
first_stage_predictions_first(flags) ==
    IF flags.reset_predictions THEN "reset"
    ELSE IF flags.reset_all THEN "reset_all"
    ELSE IF flags.reload_history THEN "reload"
    ELSE "forecast"

\* what main does after the reset, if any
after_reset(flags) == IF flags.reload_history THEN "reload" ELSE "forecast"

\* main: if args.reset_all ... elif args.reset_predictions ...
first_stage(flags) ==
    IF flags.reset_all THEN "reset_all"
    ELSE IF flags.reset_predictions THEN "reset"
    ELSE after_reset(flags)

\* reset_all_tables with the base tables taken the other way round
base_tables_counters_first ==
    <<[table |-> "counters", any_column |-> "id"],
      [table |-> "holidays", any_column |-> "date"],
      [table |-> "weather_hourly", any_column |-> "timestamp_utc"],
      [table |-> "bike_hourly", any_column |-> "counter_id"]>>

\* reset_all_tables: the deletes of the base tables, in their order
base_tables ==
    <<[table |-> "bike_hourly", any_column |-> "counter_id"],
      [table |-> "weather_hourly", any_column |-> "timestamp_utc"],
      [table |-> "holidays", any_column |-> "date"],
      [table |-> "counters", any_column |-> "id"]>>

\* what an earlier run left in the forecast table and in a prediction table
OldForecast ==
    [i \in 1..2 |-> WeatherRow(midnight(PipelineDay) + Hours(i - 1), 9, 40)]

OldPredictions ==
    [i \in 1..2 |-> PredRow(i, midnight(PipelineDay), 4)]

InitMain ==
    /\ now = midnight(PipelineDay) + Hours(12)
    /\ ticks = 0
    /\ feed \in FeedsAt(now)
    /\ pc = "main"
    /\ args \in Flags
    /\ bike_hourly = Readings([c \in 1..NumCounters |-> MainRows], NumCounters)
    /\ weather_hourly = WeatherHistory({})
    /\ holidays \in {<< >>, HolidaysCsv}
    /\ counters = <<[id |-> 1], [id |-> 2]>>
    /\ weather_forecast_hourly = OldForecast
    /\ bike_predictions_hourly_prophet = OldPredictions
    /\ bike_predictions_hourly_xgboost = OldPredictions
    /\ NoPredictor
    /\ csv_bike = bike_to_csv([i \in 1..MainRows |->
                                  [ecocounter_id |-> 1, timestamp_utc |-> Hours(i),
                                   intensity |-> i]])
    /\ csv_weather = RunsWeatherCsv
    /\ csv_holidays = HolidaysCsv
    /\ api_ts = << >> /\ api_weather = << >>
    /\ api_counters \in {<<Answer("ok", <<[id |-> 1], [id |-> 2], [id |-> 3]>>)>>,
                         <<Answer("ok", <<[id |-> 3]>>)>>}
    /\ etl_i = 0 /\ all_dfs = << >> /\ df_etl = << >>
    /\ runs = 0
    /\ locals = << >> /\ requests = << >>

main_frame == <<now, ticks, feed, df_tomorrow, forecast_day, predictor_locals,
                files, upstream, etl_locals, runs, csv_holidays, args, requests>>

\* main: parse_args, and the branch on the reset flags
ParseArgs ==
    /\ pc = "main"
    /\ pc' = first_stage(args)
    /\ locals' = IF first_stage(args) = "reset_all" THEN [i |-> 1] ELSE locals
    /\ UNCHANGED <<main_frame, tables, counters, error>>

\* reset_all_tables: one delete of a base table; reset_predictions_tables
\* follows the last of them
ResetAllTables ==
    /\ pc = "reset_all"
    /\ delete_all_rows(base_tables[locals.i].table, base_tables[locals.i].any_column,
                       IF locals.i < Len(base_tables) THEN "reset_all" ELSE "reset")
    /\ locals' = IF locals.i < Len(base_tables) THEN [i |-> locals.i + 1] ELSE << >>
    /\ UNCHANGED main_frame

\* reset_predictions_tables, called by main or by reset_all_tables
ResetPredictions ==
    /\ pc = "reset"
    /\ reset_predictions_tables(after_reset(args))

NextMain ==
    \/ ParseArgs
    \/ ResetAllTables
    \/ ResetPredictions
    \/ LoadStaticHistory
    \/ UpdateWeatherForecast
    \/ ProphetLoadShared
    \/ ProphetCounter
    \/ ProphetPersist
    \/ XgbLoadShared
    \/ XgbCounter
    \/ XgbPersist

SpecMain == InitMain /\ [][NextMain]_vars

-----------------------------------------------------------------------------
(* src/montpellier_bike_prediction/pipeline.py, the pipeline of the        *)
(* package, started as a script.  Python runs the import statements at the *)
(* top of the module before main is defined: line 10 imports the name main *)
(* from etl/bike_etl.py, which defines build_year_chunks,                  *)
(* fetch_bike_history_for_counters and run_bike_etl_for_selected and no    *)
(* main, and the ImportError ends the script there.  (Past the imports,    *)
(* reload_data_to_supabase calls truncate_table with three arguments where *)
(* db_supabase.truncate_table takes one.)                                  *)

\* the day number of 1 January 1971
NewYear == year_start(1971) \div SecondsPerDay

\* date.today(): the date of the local wall clock
date_today(now_utc) == date(tz_convert_local(now_utc))

\* the lengths of the months of year y
month_lengths(y) == <<31, days_in_year(y) - 337, 31, 30, 31, 30, 31, 31, 30, 31, 30, 31>>

\* date.month and date.day of a day number
RECURSIVE month_day(_, _, _)
month_day(y, m, d) ==
    IF d < month_lengths(y)[m] THEN [month |-> m, day |-> d + 1]
    ELSE month_day(y, m + 1, d - month_lengths(y)[m])

date_fields(d) ==
    month_day(year_of(d * SecondsPerDay), 1,
              d - (year_start(year_of(d * SecondsPerDay)) \div SecondsPerDay))

\* should_refresh_holidays, for the date date.today() returns
should_refresh_holidays(today) ==
    date_fields(today).month = 12 /\ date_fields(today).day >= 30

\* the names pipeline.py imports, each with the module it expects it in
PipelineImports ==
    <<[module |-> "db_supabase", name |-> "truncate_table"],
      [module |-> "etl.bike_etl", name |-> "main"],
      [module |-> "etl.weather_etl", name |-> "main"],
      [module |-> "etl.holidays_etl", name |-> "main"],
      [module |-> "cli.load_counters", name |-> "run"],
      [module |-> "cli.load_weather_hourly", name |-> "main"],
      [module |-> "cli.load_bike_hourly", name |-> "main"],
      [module |-> "cli.load_holidays", name |-> "main"],
      [module |-> "cli.update_weather_forecast", name |-> "main"],
      [module |-> "cli.train_and_predict_prophet", name |-> "main"],
      [module |-> "cli.train_and_predict_xgboost", name |-> "main"]>>

\* the functions a module of the package defines
defined_in(module) ==
    CASE module = "db_supabase" -> {"get_supabase_client", "upsert_df", "truncate_table"}
      [] module = "etl.bike_etl" ->
            {"build_year_chunks", "fetch_bike_history_for_counters",
             "run_bike_etl_for_selected"}
      [] module = "etl.weather_etl" -> {"run_weather_hourly_etl", "main"}
      [] module = "etl.holidays_etl" -> {"run_holidays_etl", "main"}
      [] module = "cli.load_counters" -> {"extract_lat_lon", "run"}
      [] module = "cli.load_weather_hourly" ->
            {"load_weather_csv", "upsert_weather_hourly", "main"}
      [] module = "cli.load_bike_hourly" -> {"load_bike_csv", "upsert_bike_hourly", "main"}
      [] module = "cli.load_holidays" -> {"load_holidays_csv", "main"}
      [] module = "cli.update_weather_forecast" ->
            {"fetch_hourly_forecast_utc", "keep_tomorrow_utc_midnight_to_midnight",
             "prepare_for_supabase", "upsert_weather_forecast", "main"}
      [] module = "cli.train_and_predict_prophet" ->
            {"load_bike_history", "load_weather_history", "load_holidays",
             "load_weather_forecast_for_tomorrow", "build_training_dataframe",
             "train_prophet_with_regressors", "build_future_dataframe",
             "predict_for_all_counters", "main"}
      [] module = "cli.train_and_predict_xgboost" ->
            {"load_bike_history", "load_weather_history", "load_holidays",
             "load_weather_forecast_for_tomorrow", "build_training_dataset",
             "build_future_features", "train_xgb_regressor",
             "predict_for_all_counters_xgb", "main"}

\* the clock when the script is started: around the end of December
PackageNows ==
    {midnight(d) + Hours(h) : d \in (NewYear - 3)..NewYear, h \in {0, 12, 23}}

InitPackage ==
    /\ now \in PackageNows
    /\ ticks = 0
    /\ feed \in FeedsAt(now)
    /\ pc = "import"
    /\ bike_hourly = Readings([c \in 1..NumCounters |-> MainRows], NumCounters)
    /\ weather_hourly = WeatherHistory({})
    /\ holidays \in {<< >>, HolidaysCsv}
    /\ counters \in {<< >>, <<[id |-> 1], [id |-> 2]>>}
    /\ weather_forecast_hourly \in {<< >>, OldForecast}
    /\ bike_predictions_hourly_prophet = OldPredictions
    /\ bike_predictions_hourly_xgboost = OldPredictions
    /\ NoPredictor
    /\ NoEtl
    /\ csv_holidays = HolidaysCsv
    /\ args = << >>
    /\ locals = [imported |-> 0]
    /\ requests = << >>

\* one import statement at the top of pipeline.py: the name is bound, or
\* the module does not define it and the ImportError ends the script
ImportName ==
    /\ pc = "import"
    /\ LET stmt == PipelineImports[locals.imported + 1]
       IN  IF stmt.name \in defined_in(stmt.module)
           THEN /\ locals' = [imported |-> locals.imported + 1]
                /\ pc' = IF locals.imported + 1 = Len(PipelineImports)
                         THEN "run_etl_history" ELSE "import"
                /\ error' = error
           ELSE /\ pc' = "failed"
                /\ error' = "ImportError"
                /\ UNCHANGED locals
    /\ UNCHANGED <<now, ticks, feed, tables, df_tomorrow, forecast_day, df_weather,
                   df_holidays, df_forecast_weather, idx, all_preds, df_joined, df_train,
                   df_future, fits, predicts, log, writes, files, upstream, etl_locals,
                   runs, counters, csv_holidays, args, requests>>

NextPackage == ImportName

SpecPackage == InitPackage /\ [][NextPackage]_vars

-----------------------------------------------------------------------------
(* The two predictors on a store that holds any forecast rows, in any      *)
(* order of storage, and any holidays.                                     *)

\* Rows, at most, of weather_forecast_hourly before the predictors.
MaxFutureRows == 3

\* the instants of the stored forecast rows: around tomorrow's two midnights
FutureInstants ==
    {midnight(PipelineDay) + Hours(23), midnight(PipelineDay + 1),
     midnight(PipelineDay + 1) + Hours(23), midnight(PipelineDay + 2)}

\* sequences of at most n rows with different instants of S, in any order
RECURSIVE Stored(_, _)
Stored(S, n) ==
    IF n = 0 \/ S = {} THEN {<< >>}
    ELSE {<< >>} \cup
         UNION {{<<WeatherRow(t, 10 + (hour(t) % 7), 40 + (t \div Hours(24)))>> \o rows :
                    rows \in Stored(S \ {t}, n - 1)} : t \in S}

FutureHolidays ==
    {<<HolidayRow(PipelineDay + 1, "Epiphanie")>>,
     <<HolidayRow(PipelineDay + 2, "Lendemain"), HolidayRow(PipelineDay + 1, "Epiphanie")>>,
     <<HolidayRow(PipelineDay + 1, NoText)>>,
     <<HolidayRow(0, "Jour de l'an")>>}

InitFuture ==
    /\ now = midnight(PipelineDay) + Hours(12)
    /\ ticks = 0
    /\ feed = << >>
    /\ \E size \in {0, MinTrainRows + 1} :
          bike_hourly = Readings([c \in 1..NumCounters |->
                                     IF c = 1 THEN MinTrainRows + 1 ELSE size], NumCounters)
    /\ weather_hourly = WeatherHistory({})
    /\ holidays \in FutureHolidays
    /\ weather_forecast_hourly \in Stored(FutureInstants, MaxFutureRows)
    /\ bike_predictions_hourly_prophet = << >>
    /\ bike_predictions_hourly_xgboost = << >>
    /\ NoPredictor
    /\ Quiet
    /\ pc = "prophet"

NextFuture ==
    \/ ProphetLoadShared
    \/ ProphetCounter
    \/ ProphetPersist
    \/ XgbLoadShared
    \/ XgbCounter
    \/ XgbPersist

SpecFuture == InitFuture /\ [][NextFuture]_vars

-----------------------------------------------------------------------------
(* Claims on the feature builders, under SpecFeatures *)

Variants == {"prophet", "xgboost"}

\* the training builder of variant v has run
TrainingBuilt(v) ==
    IF v = "prophet" THEN pc # "train_prophet" ELSE pc \in {"future_xgboost", "built"}

\* the instant of a feature row: column ds (Prophet) or timestamp_utc (XGBoost)
InstantOf(v, r) == IF v = "prophet" THEN r.ds ELSE r.timestamp_utc

\* every built feature frame, tagged with its variant
BuiltFrames ==
    {<<v, df_train[v]>> : v \in Variants} \cup {<<v, df_future[v]>> : v \in Variants}

C4_SameCalendarFeatures ==
    pc = "built" =>
        /\ \A f \in BuiltFrames : \A r \in Rows(f[2]) :
              LET t == InstantOf(f[1], r)
              IN  /\ r.hour \in 0..23 /\ r.hour = (t \div 60) % 24
                  /\ r.dow \in 0..6 /\ r.dow = ((t \div 1440) - 4) % 7
        /\ \A f, g \in BuiltFrames : \A r \in Rows(f[2]), q \in Rows(g[2]) :
              InstantOf(f[1], r) = InstantOf(g[1], q) => r.hour = q.hour /\ r.dow = q.dow

\* a Monday 00:00 shared by Prophet training and XGBoost future rows, and a
\* Sunday 23:00 shared by XGBoost training and Prophet future rows
C4_Witness ==
    /\ pc = "built"
    /\ \E r \in Rows(df_train.prophet), q \in Rows(df_future.xgboost) :
          r.ds = q.timestamp_utc /\ q.dow = 0 /\ q.hour = 0
    /\ \E r \in Rows(df_train.xgboost), q \in Rows(df_future.prophet) :
          r.timestamp_utc = q.ds /\ q.dow = 6 /\ q.hour = 23

(* C5: is_holiday is 1 exactly when the UTC calendar date of the timestamp *)
(* is the date of some row of the holiday table, and 0 otherwise, whatever *)
(* the other fields of the holiday rows hold.                              *)
C5_HolidayFlagIsDateMembership ==
    pc = "built" =>
        \A f \in BuiltFrames : \A r \in Rows(f[2]) :
            r.is_holiday =
                IF \E h \in Rows(df_holidays) : h.date = InstantOf(f[1], r) \div 1440
                THEN 1 ELSE 0

-----------------------------------------------------------------------------
(* Claims on the daily pipeline, under Spec *)

Counters == 1..NumCounters

\* the training table of counter c in variant v, from the tables of the store
TrainingTable(v, c) ==
    IF v = "prophet"
    THEN build_training_dataframe_select(
             build_training_dataframe_joined(load_bike_history(c), load_weather_history,
                                             load_holidays))
    ELSE build_training_dataset_dropna(
             build_training_dataset_joined(load_bike_history(c), load_weather_history,
                                           load_holidays))

\* the cases in which the code skips counter c in variant v
SkipCase(v, c) ==
    IF v = "prophet"
    THEN load_bike_history(c) = << >> \/ TrainingTable(v, c) = << >>
    ELSE Len(TrainingTable(v, c)) < MinTrainRows

\* the loop of variant v has just handled counter c, or the variant has just
\* ended (fits, predicts and log only grow, the tables read do not change)
Past(v, c) ==
    IF v = "prophet"
    THEN (pc = "prophet_loop" /\ idx = c + 1) \/ pc = "xgboost"
    ELSE (pc = "xgboost_loop" /\ idx = c + 1) \/ pc = "done"

\* variant v has just made its write (the tables it read do not change after)
Persisted(v) == IF v = "prophet" THEN pc = "xgboost" ELSE pc = "done"

PredictionTable(v) ==
    IF v = "prophet" THEN bike_predictions_hourly_prophet
    ELSE bike_predictions_hourly_xgboost

PersistedFor(v, c) == SelectSeq(PredictionTable(v), LAMBDA r : r.counter_id = c)

Fitted(v, c) == \E f \in fits : f.variant = v /\ f.counter_id = c

Warned(v, c) == \E w \in log : w.variant = v /\ w.counter_id = c

\* the update has run and the feed held no row of the day it selected
FeedEmptyForTomorrow ==
    /\ pc # "forecast"
    /\ \A i \in DOMAIN feed : date(feed[i].time_utc) # forecast_day

(* C2: in a run where the feed supplies zero rows for tomorrow, an         *)
(* empty-forecast error is raised before any model is trained: no fit      *)
(* happens for any counter in that run.                                    *)
C2_EmptyFeedStopsBeforeTraining ==
    FeedEmptyForTomorrow => fits = {}

(* C6: every feature row handed to fit and to predict, in both variants,   *)
(* has non-null values for all seven regressors.                           *)
C6_NoNullRegressorsToModels ==
    /\ \A v \in Variants : null_rows(df_train[v]) = << >>
    /\ \A p \in predicts : p.nulls = 0

(* C7: in the XGBoost variant a counter is trained and predicted if and    *)
(* only if its null-dropped training table has at least 100 rows; below    *)
(* that it is skipped with a warning, nothing is raised and the loop goes  *)
(* on to the next counter.                                                 *)
C7_XgbTrainsIffHundredRows ==
    \A c \in Counters :
        Past("xgboost", c) =>
            IF Len(TrainingTable("xgboost", c)) >= 100
            THEN /\ [variant |-> "xgboost", counter_id |-> c, rows |->
                        Len(TrainingTable("xgboost", c))] \in fits
                 /\ ~Warned("xgboost", c)
                 /\ pc = "done" => Len(PersistedFor("xgboost", c)) = Len(df_forecast_weather)
            ELSE /\ ~Fitted("xgboost", c)
                 /\ Warned("xgboost", c)
                 /\ error = "none"
                 /\ pc = "done" => PersistedFor("xgboost", c) = << >>

C7_Witness ==
    /\ pc = "done"
    /\ \E c1, c2 \in Counters :
          /\ c1 < c2
          /\ Len(TrainingTable("xgboost", c1)) = 99
          /\ Len(TrainingTable("xgboost", c2)) = 100
          /\ Warned("xgboost", c1)
          /\ Fitted("xgboost", c2)
          /\ PersistedFor("xgboost", c2) # << >>

\* counter c has readings but its Prophet training table has no row
EmptyProphetTraining(c) ==
    load_bike_history(c) # << >> /\ TrainingTable("prophet", c) = << >>

C9_SkippedCountersDoNotBlock ==
    /\ \A c \in Counters :
          (pc = "failed" /\ idx = c) => ~SkipCase("prophet", c)
    /\ \A v \in Variants :
          Persisted(v) =>
              /\ {PredictionTable(v)[i].counter_id : i \in DOMAIN PredictionTable(v)}
                    = {c \in Counters : ~SkipCase(v, c)}
              /\ \A c \in Counters :
                    ~SkipCase(v, c) => Len(PersistedFor(v, c)) = Len(df_forecast_weather)

C9_Witness ==
    /\ pc = "done"
    /\ \E c1, c2 \in Counters :
          /\ c1 < c2
          /\ SkipCase("prophet", c1) /\ SkipCase("xgboost", c1)
          /\ ~SkipCase("prophet", c2) /\ ~SkipCase("xgboost", c2)
          /\ PersistedFor("prophet", c2) # << >>
          /\ PersistedFor("xgboost", c2) # << >>

\* the rows the Prophet variant persists for counter c, as its own history
\* and the shared frames decide them
OwnPredictions(c) ==
    LET train == TrainingTable("prophet", c)
        future == build_future_dataframe(df_forecast_weather, df_holidays)
    IN  IF SkipCase("prophet", c) \/ prophet_fit_raises(train)
           \/ prophet_predict_raises(future)
        THEN << >>
        ELSE upsert(<< >>, with_strftime(prophet_pred(c, fitted(train), future)),
                    {"counter_id", "timestamp_utc"})

(* C10: per-counter independence: once the Prophet variant has ended, the  *)
(* rows persisted for a counter are those its own reading history and the  *)
(* shared weather, holiday and forecast frames decide, whatever the        *)
(* histories of the other counters, including one that makes another       *)
(* counter's training fail.                                                *)
C10_PersistedRowsDependOnOwnHistoryOnly ==
    (pc \in {"done", "failed"} /\ idx >= 1) =>
        \A c \in Counters : PersistedFor("prophet", c) = OwnPredictions(c)

-----------------------------------------------------------------------------
(* Claims on repeated runs, under SpecRuns *)

TableName(v) ==
    IF v = "prophet" THEN "bike_predictions_hourly_prophet"
    ELSE "bike_predictions_hourly_xgboost"

\* the upsert_df calls of the running script on table t
WritesTo(t) == SelectSeq(writes, LAMBDA w : w.table = t)

\* variant v has ended after its loop, and is the last script that ran
Ended(v) == IF v = "prophet" THEN ProphetEnded ELSE pc = "done"

NoSharedData == weather_hourly = << >> \/ holidays = << >>

(* C11: if weather_hourly or holidays holds no row, each variant aborts    *)
(* with an error before the first counter: no bike history is loaded, no   *)
(* model is trained, nothing is written to the variant's prediction table. *)
C11_NoSharedDataAbortsBeforeFirstCounter ==
    /\ [](NoSharedData =>
            /\ pc \notin Loops /\ pc # "done" /\ ~ProphetEnded
            /\ idx = 0 /\ fits = {} /\ predicts = {} /\ all_preds = << >>
            /\ df_joined = [prophet |-> << >>, xgboost |-> << >>]
            /\ \A v \in Variants : WritesTo(TableName(v)) = << >>)
    /\ [][(pc \in {"prophet", "xgboost"} /\ NoSharedData /\ runs' = runs /\ pc' # pc) =>
             /\ pc' = "failed"
             /\ error' \in {"No data in weather_hourly", "No data in holidays"}
             /\ UNCHANGED <<tables, idx, fits, predicts, all_preds, df_joined, writes>>]_vars

C11_Witness ==
    /\ pc = "failed"
    /\ error = "No data in holidays"
    /\ holidays = << >> /\ weather_hourly # << >> /\ weather_forecast_hourly # << >>
    /\ fits = {} /\ idx = 0

RECURSIVE rows_in(_)
rows_in(frames) == IF frames = << >> THEN 0 ELSE Len(Head(frames)) + rows_in(Tail(frames))

(* C12: a variant run writes at most once to its prediction table, only    *)
(* after the loop over all counters has ended, and the write carries the   *)
(* rows of all predicted counters; no prediction row is written while      *)
(* counters are being processed.                                           *)
C12_OneWriteAfterTheLoop ==
    /\ [](/\ \A v \in Variants : Len(WritesTo(TableName(v))) <= 1
          /\ pc \in {"prophet", "prophet_loop"} =>
                WritesTo(TableName("prophet")) = << >>
          /\ pc \in {"xgboost", "xgboost_loop"} =>
                WritesTo(TableName("xgboost")) = << >>
          /\ \A v \in Variants :
                (Ended(v) /\ all_preds # << >>) =>
                    /\ Len(WritesTo(TableName(v))) = 1
                    /\ Len(WritesTo(TableName(v))[1].records) = rows_in(all_preds)
                    /\ \A k \in DOMAIN all_preds :
                          Rows(with_strftime(all_preds[k]))
                             \subseteq Rows(WritesTo(TableName(v))[1].records))
    /\ [][(pc \in Loops /\ pc' \in Loops) =>
             UNCHANGED <<bike_predictions_hourly_prophet,
                         bike_predictions_hourly_xgboost, writes>>]_vars

\* a pipeline run that predicted two counters in each variant
C12_Witness ==
    /\ pc = "done"
    /\ Len(all_preds) = 2
    /\ Len(WritesTo(TableName("prophet"))) = 1
    /\ Len(WritesTo(TableName("xgboost"))) = 1
    /\ Len(WritesTo(TableName("xgboost"))[1].records) = 2 * HoursOfWindow

\* the days that were "tomorrow" at some time of the running script
TomorrowsOfRun == {tomorrow_of(now - Hours(k)) : k \in 0..ticks}

(* C13: each trained counter contributes exactly 24 rows to the variant's  *)
(* batch, whose timestamps are the hours 00:00..23:00 of tomorrow (UTC);   *)
(* no two rows of a batch share (counter_id, timestamp_utc).               *)
C13_TwentyFourRowsPerTrainedCounter ==
    /\ \A k \in DOMAIN all_preds :
          /\ Len(all_preds[k]) = HoursOfWindow
          /\ \E d \in TomorrowsOfRun :
                {all_preds[k][i].timestamp_utc : i \in DOMAIN all_preds[k]}
                   = {midnight(d) + Hours(h) : h \in 0..23}
          /\ \A i \in DOMAIN all_preds[k] :
                all_preds[k][i].counter_id = all_preds[k][1].counter_id
          /\ \A j \in DOMAIN all_preds :
                all_preds[j][1].counter_id = all_preds[k][1].counter_id => j = k
    /\ pc = "prophet_loop" =>
          Len(all_preds) = Cardinality({f \in fits : f.variant = "prophet"})
    /\ pc = "xgboost_loop" =>
          Len(all_preds) = Cardinality({f \in fits : f.variant = "xgboost"})
    /\ \A v \in Variants : \A w \in Rows(WritesTo(TableName(v))) :
          \A i, j \in DOMAIN w.records :
              (/\ w.records[i].counter_id = w.records[j].counter_id
               /\ w.records[i].timestamp_utc = w.records[j].timestamp_utc) => i = j

\* the feed answered twice for one hour, and both counters were predicted
C13_Witness ==
    /\ pc = "done"
    /\ Len(feed) = HoursOfWindow + 1
    /\ Len(all_preds) = 2
    /\ Len(WritesTo(TableName("prophet"))) = 1
    /\ Len(bike_predictions_hourly_xgboost) = 2 * HoursOfWindow

\* the day the running variant predicts
TargetDay == date(df_forecast_weather[1].timestamp_utc)

\* the rows of v's table for the target day that the batch of the variant
\* that has just ended does not hold
Leftovers(v) ==
    {r \in Rows(PredictionTable(v)) :
        /\ date(r.timestamp_utc) = TargetDay
        /\ \A k \in DOMAIN all_preds : r \notin Rows(all_preds[k])}

(* C14: after any sequence of runs, once a run of a variant has completed, *)
(* the rows of its prediction table for tomorrow's date are those of that  *)
(* run: none is a leftover of an earlier run.                              *)
C14_NoLeftoverOfEarlierRun ==
    \A v \in Variants : Ended(v) => Leftovers(v) = {}

\* the second run predicted counter 1 and counter 2 on a table in which an
\* earlier run had stored counter 2 only: its rows come first in the table
C14_Witness ==
    /\ runs = 2
    /\ pc = "done"
    /\ Len(all_preds) = 2
    /\ Len(bike_predictions_hourly_xgboost) = 2 * HoursOfWindow
    /\ bike_predictions_hourly_xgboost[1].counter_id = 2
    /\ all_preds[1][1].counter_id = 1

\* the timestamp texts of the records of a write
Texts(w) == {w.records[i].timestamp_utc : i \in DOMAIN w.records}

(* C16: every timestamp a loader or a predictor writes (bike_hourly,       *)
(* weather_hourly, weather_forecast_hourly, both prediction tables) is the *)
(* UTC instant in the form YYYY-MM-DDTHH:MM:SS, and the two variants write *)
(* the same text for the same forecast hour.                               *)
C16_WrittenTimestampsAreUtcTexts ==
    /\ \A w \in Rows(WritesTo("bike_hourly")) :
          Texts(w) = {strftime(to_datetime_utc(csv_bike[i].timestamp_utc)) :
                         i \in DOMAIN csv_bike}
    /\ \A w \in Rows(WritesTo("weather_hourly")) :
          Texts(w) = {strftime(to_datetime_utc(csv_weather[i].timestamp_utc)) :
                         i \in DOMAIN csv_weather}
    /\ \A w \in Rows(WritesTo("weather_forecast_hourly")) :
          Texts(w) = {<<forecast_day, h, 0>> : h \in 0..23}
    /\ \A v \in Variants :
          (Ended(v) /\ all_preds # << >>) =>
              \A w \in Rows(WritesTo(TableName(v))) :
                  Texts(w) = {strftime(df_forecast_weather[i].timestamp_utc) :
                                 i \in DOMAIN df_forecast_weather}
    /\ \A wp \in Rows(WritesTo(TableName("prophet"))) :
          \A wx \in Rows(WritesTo(TableName("xgboost"))) : Texts(wp) = Texts(wx)

\* a pipeline run with --reload-history that wrote to the five tables
C16_Witness ==
    /\ pc = "done"
    /\ WritesTo("bike_hourly") # << >>
    /\ WritesTo("weather_hourly") # << >>
    /\ WritesTo("weather_forecast_hourly") # << >>
    /\ WritesTo(TableName("prophet")) # << >>
    /\ WritesTo(TableName("xgboost")) # << >>
    /\ csv_weather[1].timestamp_utc.offset # 0

(* C20: in a variant run the weather history, the holidays and tomorrow's  *)
(* forecast are fetched once, before the first counter, and the same       *)
(* snapshots serve every counter: a counter's step changes neither the     *)
(* snapshots nor the three shared tables, and every counter is predicted   *)
(* on the forecast loaded before the loop.                                 *)
C20_SharedSnapshotsLoadedOnce ==
    /\ [](pc \in Loops =>
            /\ df_weather = load_weather_history
            /\ df_holidays = load_holidays
            /\ df_forecast_weather # << >>
            /\ Rows(df_forecast_weather) \subseteq Rows(weather_forecast_hourly)
            /\ \A k \in DOMAIN all_preds :
                  [i \in DOMAIN all_preds[k] |-> all_preds[k][i].timestamp_utc]
                     = [i \in DOMAIN df_forecast_weather |->
                           df_forecast_weather[i].timestamp_utc])
    /\ [][(pc \in Loops /\ pc' \in Loops) =>
             UNCHANGED <<df_weather, df_holidays, df_forecast_weather,
                         weather_hourly, holidays, weather_forecast_hourly>>]_vars
    /\ [][(pc' \in Loops /\ pc \notin Loops) =>
             /\ idx' = 1 /\ all_preds' = << >>
             /\ df_forecast_weather' = load_weather_forecast_for_tomorrow(now)]_vars

\* midnight passed between the load and the second counter's prediction
C20_Witness ==
    /\ pc \in Loops
    /\ ticks = 1 /\ hour(now) = 0
    /\ idx = 3
    /\ Len(all_preds) = 2
    /\ date(df_forecast_weather[1].timestamp_utc) = date(now)

-----------------------------------------------------------------------------
(* Claims on the helpers that clear the tables, under SpecDelete *)

\* the content of the table a call of _delete_all_rows names
TableOf(table_name) ==
    CASE table_name = "bike_hourly" -> bike_hourly
      [] table_name = "weather_hourly" -> weather_hourly
      [] table_name = "holidays" -> holidays
      [] table_name = "counters" -> counters
      [] table_name = "weather_forecast_hourly" -> weather_forecast_hourly
      [] table_name = "bike_predictions_hourly_prophet" -> bike_predictions_hourly_prophet
      [] table_name = "bike_predictions_hourly_xgboost" -> bike_predictions_hourly_xgboost

\* C26: after _delete_all_rows(table, any_column) has returned, the table
\* holds no row, whatever it held before the call.
C26_TableEmptyAfterDelete ==
    pc = "deleted" => TableOf(args.table) = << >>


-----------------------------------------------------------------------------
(* Claims on the root pipeline, under SpecMain *)

\* the positions a run of main goes through, for its flags, when no stage
\* raises
Plan(flags) ==
    <<"main">>
    \o (IF flags.reset_all THEN <<"reset_all", "reset">>
        ELSE IF flags.reset_predictions THEN <<"reset">> ELSE << >>)
    \o (IF flags.reload_history THEN <<"reload">> ELSE << >>)
    \o <<"forecast", "prophet", "prophet_loop", "xgboost", "xgboost_loop", "done">>

\* C23: for every combination of --reset-all, --reset-predictions and
\* --reload-history, main goes through its stages in the fixed order: the
\* reset if asked for (the full one when both reset flags are given), the
\* history reload if asked for, then the forecast update, Prophet and
\* XGBoost, none of the last three being skipped; only an exception ends
\* the run elsewhere.
C23_StagesInFixedOrderForEveryFlags ==
    [][pc' # pc =>
          \/ pc' = "failed"
          \/ \E k \in 1..(Len(Plan(args)) - 1) :
                Plan(args)[k] = pc /\ Plan(args)[k + 1] = pc']_vars

\* a run with the three flags went through every stage to its end
C23_Witness ==
    /\ pc = "done"
    /\ args = [reset_all |-> TRUE, reset_predictions |-> TRUE, reload_history |-> TRUE]
    /\ counters # << >>
    /\ bike_predictions_hourly_prophet # << >>

BaseTablesEmpty ==
    bike_hourly = << >> /\ weather_hourly = << >> /\ holidays = << >> /\ counters = << >>

PredictionTablesEmpty ==
    /\ weather_forecast_hourly = << >>
    /\ bike_predictions_hourly_prophet = << >>
    /\ bike_predictions_hourly_xgboost = << >>

\* C25: reset_predictions_tables leaves bike_hourly, weather_hourly,
\* holidays and counters as they are, and when it returns
\* weather_forecast_hourly and the two prediction tables are empty;
\* reset_all_tables deletes bike_hourly before counters, and when it returns
\* the four base tables are empty as well.
C25_ResetsClearTheirTablesOnly ==
    /\ [][pc = "reset" /\ pc' # pc =>
             /\ UNCHANGED <<bike_hourly, weather_hourly, holidays, counters>>
             /\ pc' # "failed" => PredictionTablesEmpty']_vars
    /\ [][pc = "reset_all" /\ counters' # counters => bike_hourly = << >>]_vars
    /\ [][args # << >> /\ args.reset_all /\ pc = "reset" /\ pc' \notin {"reset", "failed"} =>
             BaseTablesEmpty' /\ PredictionTablesEmpty']_vars

\* reset_all_tables has returned and the seven tables, which were not empty,
\* are empty
C25_Witness ==
    /\ args \in Flags
    /\ args.reset_all
    /\ pc = after_reset(args)
    /\ BaseTablesEmpty
    /\ PredictionTablesEmpty

-----------------------------------------------------------------------------
(* Claims on the target day of a run, under Spec *)

\* a predictor's shared loads get as far as the reading of the clock
ReadsTheClock(stage) ==
    /\ pc = stage
    /\ weather_hourly # << >> /\ holidays # << >> /\ weather_forecast_hourly # << >>

\* C24: within one run the forecast update and the two predictors work on
\* the same target day: when a predictor reads the clock to select
\* "tomorrow", whenever that is, the date it selects is the date whose
\* 24-hour window the forecast update wrote.
C24_StagesShareTheTargetDay ==
    [][(ReadsTheClock("prophet") \/ ReadsTheClock("xgboost")) /\ pc' # pc =>
          tomorrow_of(now) = forecast_day]_vars

-----------------------------------------------------------------------------
(* Claims on the chunked uploads, under SpecChunked *)

\* the records of the upsert_df calls made, one call after the other
SentInOrder == concat([i \in DOMAIN writes |-> writes[i].records])

\* C27: for a frame of n rows and a chunk_size of at least 1, a chunked
\* upload sends every row exactly once and in the original order, in
\* ceil(n / chunk_size) calls of upsert_df, each with at least one and at
\* most chunk_size rows; for n = 0 it makes no call.
C27_ChunksCoverFrameInOrder ==
    pc = "upserted" =>
        LET n == Len(args.df)
            calls == Len(writes)
        IN  /\ SentInOrder = args.df
            /\ calls * args.chunk_size >= n
            /\ n > 0 => (calls - 1) * args.chunk_size < n
            /\ n = 0 => calls = 0
            /\ \A i \in DOMAIN writes :
                  /\ writes[i].table = args.table
                  /\ Len(writes[i].records) \in 1..args.chunk_size

\* four rows went out in chunks of three: a full chunk, then the rest
C27_Witness ==
    /\ pc = "upserted"
    /\ Len(args.df) = 4 /\ args.chunk_size = 3
    /\ Len(writes) = 2
    /\ Len(writes[2].records) = 1
    /\ Len(weather_hourly) + Len(bike_hourly) + Len(weather_forecast_hourly) = 4

-----------------------------------------------------------------------------
(* Claims on build_year_chunks, under SpecYears *)

\* C28: for start < end the chunks of build_year_chunks partition
\* [start, end] at the resolution of one second: the first begins at start,
\* the last ends at end, each next one begins one second after the one
\* before ends, and none spans two calendar years; for start >= end there
\* is no chunk.
C28_YearChunksPartitionTheInterval ==
    pc = "chunks_built" =>
        LET cs == locals.chunks
        IN  IF args.start < args.end
            THEN /\ cs # << >>
                 /\ cs[1].start = args.start
                 /\ cs[Len(cs)].end = args.end
                 /\ \A k \in 1..(Len(cs) - 1) : cs[k + 1].start = cs[k].end + 1
                 /\ \A k \in DOMAIN cs :
                       /\ cs[k].start <= cs[k].end
                       /\ year_of(cs[k].start) = year_of(cs[k].end)
            ELSE cs = << >>

-----------------------------------------------------------------------------
(* Claims on the paging of fetch_all_counters, under SpecPages *)

\* the first request the registry answers with something else than a
\* non-empty list
FirstStop ==
    CHOOSE k \in 1..(Len(api_counters) + 1) :
        /\ k \in DOMAIN api_counters =>
              api_counters[k].status # "ok" \/ api_counters[k].rows = << >>
        /\ \A j \in 1..(k - 1) :
              api_counters[j].status = "ok" /\ api_counters[j].rows # << >>

\* C29: fetch_all_counters asks for the offsets 0, limit, 2 * limit, ...;
\* it stops at the first answer that is empty or not a list, and then its
\* result holds the items of every page before, once each and in the order
\* of the pages; with a registry of finitely many pages it comes to an end.
C29_PagingStopsAtFirstEmptyPage ==
    /\ [](/\ \A k \in DOMAIN requests :
                requests[k] = [limit |-> args.limit, offset |-> (k - 1) * args.limit]
          /\ Len(requests) <= FirstStop
          /\ pc = "counters_fetched" =>
                /\ Len(requests) = FirstStop
                /\ df_etl = concat([k \in 1..(FirstStop - 1) |-> api_counters[k].rows]))
    /\ <>(pc \in {"counters_fetched", "failed"})

\* two pages were taken, the third request was answered with no list
C29_Witness ==
    /\ pc = "counters_fetched"
    /\ Len(requests) = 3
    /\ Len(api_counters) = 3
    /\ api_counters[3].status = "object"
    /\ Len(df_etl) = 3

-----------------------------------------------------------------------------
(* Claims on the pipeline of the package, under SpecPackage *)

\* the run has come to its end, one way or the other
PackageEnded == pc \in {"done", "failed"}

\* the holidays ETL has written the holidays CSV again in this run
HolidaysRegenerated == csv_holidays # HolidaysCsv

\* the holidays loader has written to the table in this run
HolidaysReloaded == \E i \in DOMAIN writes : writes[i].table = "holidays"

\* C21: the holiday refresh is decided once per run: the run regenerates
\* the holidays CSV exactly when the date is 30 or 31 December, and it
\* truncates and reloads the table holidays exactly when it has regenerated
\* the CSV before, never the one without the other.
C21_HolidaysRefreshedOncePerRun ==
    PackageEnded =>
        /\ HolidaysRegenerated <=> should_refresh_holidays(date_today(now))
        /\ HolidaysReloaded <=> HolidaysRegenerated

\* C22: when every external call succeeds, main of the package runs its
\* three stages to completion: no exception ends the run, and at its end
\* the prediction tables hold the predictions for tomorrow only.
C22_PackageMainRunsToCompletion ==
    /\ pc # "failed"
    /\ pc = "done" =>
          \A i \in DOMAIN bike_predictions_hourly_prophet :
             date(bike_predictions_hourly_prophet[i].timestamp_utc) = tomorrow_of(now)

-----------------------------------------------------------------------------
(* Claims on the pairing of predictions and forecast rows, under SpecFuture *)

\* the variant whose loop has filled all_preds
VariantOfPreds == IF pc \in {"prophet_loop", "xgboost"} THEN "prophet" ELSE "xgboost"

\* the rows of weather_forecast_hourly for tomorrow
TomorrowsForecast ==
    {weather_forecast_hourly[i] : i \in
        {k \in DOMAIN weather_forecast_hourly :
            date(weather_forecast_hourly[k].timestamp_utc) = tomorrow_of(now)}}

\* the timestamp of row i of the future feature table of a variant
FutureTimestamp(v, i) ==
    IF v = "prophet" THEN df_future[v][i].ds ELSE df_future[v][i].timestamp_utc

\* the future feature table of a variant lists tomorrow's forecast rows, one
\* row each, in ascending order of timestamp
ListsTomorrowInOrder(v) ==
    /\ Len(df_future[v]) = Cardinality(TomorrowsForecast)
    /\ \A r \in TomorrowsForecast :
          \E i \in DOMAIN df_future[v] :
             /\ FutureTimestamp(v, i) = r.timestamp_utc
             /\ \A c \in WeatherCols : df_future[v][i][c] = r[c]
    /\ \A i \in 1..(Len(df_future[v]) - 1) : FutureTimestamp(v, i) < FutureTimestamp(v, i + 1)

\* row i of a prediction frame has the timestamp of row i of the future
\* feature table and the answer of the model on that row
PairedRowByRow(frame, v) ==
    /\ Len(frame) = Len(df_future[v])
    /\ \A i \in DOMAIN frame :
          /\ frame[i].timestamp_utc = FutureTimestamp(v, i)
          /\ frame[i].yhat[2] = [c \in FEATURE_COLS |-> df_future[v][i][c]]

\* a persisted prediction has the instant of a forecast row of tomorrow and
\* was computed from that row's hour and weather
CarriesItsForecastRow(p) ==
    \E r \in TomorrowsForecast :
       /\ p.timestamp_utc = r.timestamp_utc
       /\ p.yhat[2].hour = hour(r.timestamp_utc)
       /\ \A c \in WeatherCols : p.yhat[2][c] = r[c]

====
